---- MODULE Spec2Model ----
(***************************************************************************)
(* A model of ytstorage: a storage gateway with a filesystem driver, an   *)
(* S3 driver, a Redis cache tier and gRPC handlers.                        *)
(*                                                                         *)
(* The module holds several groups of state, each with its own            *)
(* specification over the full variable list:                              *)
(*   SpecPath   - utils/path_ut.py and the drivers' path handling          *)
(*   SpecMp     - write_stream and read_stream of the two drivers          *)
(*   Spec       - server/handlers_srv.py with utils/cache_ut.py            *)
(*   SpecAuth   - the same handlers, one request at a time, any metadata   *)
(*   SpecSteady - the same handlers with a Redis that never fails          *)
(*   SpecNs     - mkdirs, rename and remove of the two drivers             *)
(*   SpecRead   - the streaming loops of the Read handler                  *)
(*                                                                         *)
(* Strings whose characters matter (paths) are sequences of one-character  *)
(* strings, so that replace/strip/startswith are computed, not assumed.    *)
(***************************************************************************)
EXTENDS Integers, Sequences, FiniteSets, TLC

VARIABLES
    \* ---- driver path handling (SpecPath)
    fsRoot,      \* fs_cfg.FS_ROOT, an absolute path (sequence of segments)
    dOp,         \* the driver operation being run, or NoOp
    dFull,       \* what _full_path / _clean_key produced for each path argument
    dResult,     \* "none" | "ok" | the exception the operation raised
    firstCall,   \* the backend calls issued up to and including the first one
    \* ---- S3Driver.write_stream and the bucket (SpecMp)
    s3Object,    \* the object stored at the key: Absent or its bytes
    s3Uploads,   \* the bucket's multipart sessions, by upload id
    wsCalls,     \* write_stream calls started so far
    wsPc,        \* where the running write_stream call stands
    wsArgs,      \* its overwrite and append arguments, the driver the server
                 \* runs, and what was stored at the path when the call was made
    wsUploadId,  \* upload_id (0 is None)
    wsBuffer,    \* buffer
    wsParts,     \* parts
    wsPartNumber,\* part_number
    wsExc,       \* the exception being handled by the except clause
    wsOutcome,   \* how the call ended
    wsIn,        \* the inbound sequence: elements and bytes consumed, whether it raised
    fsFile,      \* the file FSDriver holds at the path: Absent or its bytes
    rsOut,       \* the last read_stream call: its arguments and what it yielded
    \* ---- mkdirs, rename and remove of the drivers (SpecNs)
    nsKind,      \* config.DRIVER_KIND: the driver get_driver() returned
    fsTree,      \* what FS_ROOT holds at each path: nothing, a directory, a file
    s3Bucket,    \* what the bucket holds at each key: nothing, a marker, an object
    nsLog,       \* the last two driver calls: arguments, outcome, the store before
    nsCalls,     \* driver calls made so far
    \* ---- request handlers and the cache (Spec, SpecAuth)
    secret,      \* config.STORAGE_REMOTE_TOKEN ("" when auth is off)
    cacheOn,     \* CacheManager.enabled with a Redis client
    redisFlaky,  \* may a call to Redis raise in this behaviour
    started,     \* RPCs the first client has sent so far
    store,       \* what the driver holds at each rel_path: no object, or a body
    cacheStat,   \* Redis keys ytstorage:stat:<rel_path>
    cacheData,   \* Redis keys ytstorage:data:<rel_path>
    reqs,        \* the in-flight RPCs, one handler task per slot
    \* ---- the streaming loops of Read (SpecRead)
    rd,          \* one Read between read_stream and its last chunk
    ctxDone,     \* context.done() of that RPC
    \* ---- single driver calls followed backend call by backend call
    rn,          \* one S3Driver.rename and the bucket it works on (SpecRen)
    ld,          \* one FSDriver.listdir and the directory it lists (SpecLd)
    rb,          \* one S3Driver.read_stream and its response body (SpecBody)
    dc,          \* a directory, its child and the cache over them (SpecDir)
    \* ---- calls of two clients followed step by step
    wr,          \* two Write RPCs and the frames of their request streams (SpecWr)
    ck,          \* one object, its spellings and the cache keys under them (SpecKey)
    ex           \* two creations of one path without overwrite (SpecEx)

pathVars == <<fsRoot, dOp, dFull, dResult, firstCall>>

mpVars == <<s3Object, s3Uploads, wsCalls, wsPc, wsArgs, wsUploadId, wsBuffer, wsParts,
            wsPartNumber, wsExc, wsOutcome, wsIn, fsFile, rsOut>>

hVars == <<secret, cacheOn, redisFlaky, started, store, cacheStat, cacheData, reqs>>

nsVars == <<nsKind, fsTree, s3Bucket, nsLog, nsCalls>>

rdVars == <<rd, ctxDone>>

stepVars == <<rn, ld, rb, dc>>

callVars == <<wr, ck, ex>>

vars == <<pathVars, mpVars, hVars, nsVars, rdVars, stepVars, callVars>>

\* what each part of the system leaves alone
notPathVars == <<mpVars, hVars, nsVars, rdVars, stepVars, callVars>>
notMpVars == <<pathVars, hVars, nsVars, rdVars, stepVars, callVars>>
notHVars == <<pathVars, mpVars, nsVars, rdVars, stepVars, callVars>>
notNsVars == <<pathVars, mpVars, hVars, rdVars, stepVars, callVars>>
notRdVars == <<pathVars, mpVars, hVars, nsVars, stepVars, callVars>>
notStepVars == <<pathVars, mpVars, hVars, nsVars, rdVars, callVars>>
notCallVars == <<pathVars, mpVars, hVars, nsVars, rdVars, stepVars>>

\* a driver call that is not followed in this behaviour
Unused == [pc |-> "unused"]

CallIdle == wr = Unused /\ ck = Unused /\ ex = Unused

StepsUnused == rn = Unused /\ ld = Unused /\ rb = Unused /\ dc = Unused

StepIdle == StepsUnused /\ CallIdle

-----------------------------------------------------------------------------
(* Bounds *)

\* rel_path inputs are concatenations of at most MaxTokens tokens
MaxTokens == 3

\* an inbound sequence yields at most MaxChunks elements of at most MaxChunkLen bytes
MaxChunks == 3
MaxChunkLen == 2

\* write_stream calls followed in one behaviour
MaxWrites == 1

\* call metadata holds at most MaxHeaders key/value pairs
MaxHeaders == 2

\* a Write RPC's inbound stream holds at most MaxFrames frames after the first
MaxFrames == 2

\* RPCs that one client sends in one behaviour
MaxRequests == 2

\* driver calls followed on the namespace
MaxOps == 2

\* chunks that read_stream hands to one Read
MaxReadChunks == 3

-----------------------------------------------------------------------------
(* Character strings *)

Str1(a) == <<a>>
Str2(a, b) == <<a, b>>

StartsWith(s, p) == Len(p) <= Len(s) /\ SubSeq(s, 1, Len(p)) = p

RECURSIVE LStripCh(_, _)
LStripCh(s, c) ==
    IF s # <<>> /\ Head(s) = c THEN LStripCh(Tail(s), c) ELSE s

RECURSIVE RStripCh(_, _)
RStripCh(s, c) ==
    IF s # <<>> /\ s[Len(s)] = c THEN RStripCh(SubSeq(s, 1, Len(s) - 1), c) ELSE s

\* str.strip(c)
StripCh(s, c) == RStripCh(LStripCh(s, c), c)

\* str.replace("\\", "/")
ReplaceBackslash(s) == [i \in 1..Len(s) |-> IF s[i] = "\\" THEN "/" ELSE s[i]]

RECURSIVE SplitSlash(_, _, _)
SplitSlash(s, cur, acc) ==
    IF s = <<>> THEN Append(acc, cur)
    ELSE IF Head(s) = "/" THEN SplitSlash(Tail(s), <<>>, Append(acc, cur))
    ELSE SplitSlash(Tail(s), Append(cur, Head(s)), acc)

DotDot == Str2(".", ".")
Dot == Str1(".")

IsNamePart(g) == g # <<>> /\ g # Dot

\* pathlib's parsing of a relative string: empty and "." parts are dropped,
\* ".." is kept
PathParts(s) == SelectSeq(SplitSlash(s, <<>>, <<>>), IsNamePart)

RECURSIVE PathStr(_)
\* str(PosixPath): "/" for the root, otherwise "/seg" per segment
PathStr(segs) ==
    IF segs = <<>> THEN Str1("/")
    ELSE IF Len(segs) = 1 THEN <<"/">> \o segs[1]
    ELSE PathStr(SubSeq(segs, 1, Len(segs) - 1)) \o <<"/">> \o segs[Len(segs)]

IsSegPrefix(p, s) == Len(p) <= Len(s) /\ SubSeq(s, 1, Len(p)) = p

-----------------------------------------------------------------------------
(* The directory tree the filesystem driver runs on *)

SegD == Str1("d")
SegD2 == Str2("d", "2")
SegR == Str1("r")
SegS == Str1("s")
SegE == Str1("e")
SegA == Str1("a")

\* candidate storage roots: /d and /d/r
Roots == { <<SegD>>, <<SegD, SegR>> }

\* symbolic links present in the tree: <root>/s points at /e, outside every root
Symlinks == (<<SegD, SegS>> :> <<SegE>>) @@ (<<SegD, SegR, SegS>> :> <<SegE>>)

RECURSIVE Realpath(_, _, _)
\* Path.resolve(): walks the parts from `cur`, ".." drops the last resolved
\* segment (the root's parent is the root), a segment that is a symbolic link
\* is replaced by its target
Realpath(links, cur, rest) ==
    IF rest = <<>> THEN cur
    ELSE LET g == Head(rest) IN
         IF g = DotDot
         THEN Realpath(links,
                       IF cur = <<>> THEN <<>> ELSE SubSeq(cur, 1, Len(cur) - 1),
                       Tail(rest))
         ELSE LET nxt == Append(cur, g) IN
              IF nxt \in DOMAIN links
              THEN Realpath(links, links[nxt], Tail(rest))
              ELSE Realpath(links, nxt, Tail(rest))

-----------------------------------------------------------------------------
(* utils/path_ut.py *)

normalize_path(rel_path) ==
    IF rel_path = <<>> THEN <<>>
    ELSE LStripCh(StripCh(ReplaceBackslash(rel_path), " "), "/")

PermissionError == "PermissionError"

\* the containment test of safe_join: a comparison of the two path strings
InsideBaseMissingCheck(final_path, base_path) == TRUE
InsideBase(final_path, base_path) ==
    StartsWith(PathStr(final_path), PathStr(base_path))

ResolvedTarget(base, rel_path) ==
    Realpath(Symlinks, Realpath(Symlinks, <<>>, base), PathParts(normalize_path(rel_path)))

safe_join(base, rel_path) ==
    LET base_path == Realpath(Symlinks, <<>>, base)
        clean_rel == normalize_path(rel_path)
        final_path == Realpath(Symlinks, base_path, PathParts(clean_rel))
    IN  IF ~InsideBase(final_path, base_path)
        THEN [err |-> PermissionError, path |-> <<>>]
        ELSE [err |-> "none", path |-> PathStr(final_path)]

-----------------------------------------------------------------------------
(* rel_path inputs *)

Tokens == { Str1("/"), Str1("\\"), DotDot, SegA, SegD2, SegS, Str1(" ") }

RECURSIVE TokenStrings(_)
TokenStrings(n) ==
    IF n = 0 THEN { <<>> }
    ELSE LET prev == TokenStrings(n - 1)
         IN  prev \cup { s \o t : s \in prev, t \in Tokens }

RelPaths == TokenStrings(MaxTokens)

\* the second path of a rename is drawn from a few fixed spellings
OtherPaths == { SegA, DotDot \o Str1("/") \o SegD2, Str1("/") \o SegA }

-----------------------------------------------------------------------------
(* Driver operations up to their first backend call *)

NoOp == [drv |-> "none", op |-> "none", paths |-> <<>>, overwrite |-> FALSE, append |-> FALSE]

SinglePathOps == { "stat", "exists", "listdir", "mkdirs", "remove", "read_stream", "write_stream" }

\* FSDriver._full_path
_full_path(rel_path) == safe_join(fsRoot, rel_path)

\* the first filesystem call each FSDriver method makes with its resolved path
FSFirstApi(op, overwrite, append) ==
    CASE op = "stat" -> "os.stat"
      [] op = "exists" -> "os.path.exists"
      [] op = "listdir" -> "os.listdir"
      [] op = "mkdirs" -> "os.makedirs"
      [] op = "remove" -> "os.path.isdir"
      [] op = "read_stream" -> "open"
      [] op = "write_stream" -> "os.path.exists"
      [] op = "rename" -> IF overwrite THEN "os.rename" ELSE "os.path.exists"

\* S3Driver._clean_key
_clean_key(rel_path) == StripCh(rel_path, "/")

\* the first S3 call each S3Driver method makes with its key
S3FirstApi(op, overwrite, append) ==
    CASE op = "stat" -> "head_object"
      [] op = "exists" -> "head_object"
      [] op = "listdir" -> "list_objects_v2"
      [] op = "mkdirs" -> "put_object"
      [] op = "remove" -> "head_object"
      [] op = "read_stream" -> "get_object"
      [] op = "write_stream" -> IF overwrite THEN "create_multipart_upload" ELSE "head_object"
      [] op = "rename" -> IF overwrite THEN "copy_object" ELSE "head_object"

\* an FSDriver method with one path argument: _full_path first, then the call
FSOp(op, rel_path, overwrite, append) ==
    /\ dOp = NoOp
    /\ dOp' = [drv |-> "fs", op |-> op, paths |-> <<rel_path>>,
               overwrite |-> overwrite, append |-> append]
    /\ LET full == _full_path(rel_path) IN
       /\ dFull' = <<full>>
       /\ IF full.err # "none"
          THEN /\ dResult' = full.err
               /\ firstCall' = <<>>
          ELSE /\ dResult' = "proceeded"
               /\ firstCall' = <<[api |-> FSFirstApi(op, overwrite, append), arg |-> full.path]>>
    /\ UNCHANGED fsRoot

\* FSDriver.rename: both paths are resolved before any filesystem call
FSRename(src, dst, overwrite) ==
    /\ dOp = NoOp
    /\ dOp' = [drv |-> "fs", op |-> "rename", paths |-> <<src, dst>>,
               overwrite |-> overwrite, append |-> FALSE]
    /\ LET full_src == _full_path(src)
           full_dst == _full_path(dst)
       IN  IF full_src.err # "none"
           THEN /\ dFull' = <<full_src>>
                /\ dResult' = full_src.err
                /\ firstCall' = <<>>
           ELSE IF full_dst.err # "none"
           THEN /\ dFull' = <<full_src, full_dst>>
                /\ dResult' = full_dst.err
                /\ firstCall' = <<>>
           ELSE /\ dFull' = <<full_src, full_dst>>
                /\ dResult' = "proceeded"
                /\ firstCall' = <<[api |-> FSFirstApi("rename", overwrite, FALSE),
                                   arg |-> IF overwrite THEN full_src.path ELSE full_dst.path]>>
    /\ UNCHANGED fsRoot

\* an S3Driver method with one path argument: _clean_key, then the call
S3Op(op, rel_path, overwrite, append) ==
    /\ dOp = NoOp
    /\ dOp' = [drv |-> "s3", op |-> op, paths |-> <<rel_path>>,
               overwrite |-> overwrite, append |-> append]
    /\ IF op = "write_stream" /\ append
       THEN /\ dFull' = <<>>
            /\ dResult' = "NotImplementedError"
            /\ firstCall' = <<>>
       ELSE LET key == _clean_key(rel_path) IN
            /\ dFull' = <<[err |-> "none", path |-> key]>>
            /\ dResult' = "proceeded"
            /\ firstCall' = <<[api |-> S3FirstApi(op, overwrite, append),
                               arg |-> IF op = "mkdirs" /\ (key = <<>> \/ key[Len(key)] # "/")
                                       THEN key \o Str1("/") ELSE key]>>
    /\ UNCHANGED fsRoot

\* S3Driver.rename
S3Rename(src, dst, overwrite) ==
    /\ dOp = NoOp
    /\ dOp' = [drv |-> "s3", op |-> "rename", paths |-> <<src, dst>>,
               overwrite |-> overwrite, append |-> FALSE]
    /\ LET src_key == _clean_key(src)
           dst_key == _clean_key(dst)
       IN  /\ dFull' = <<[err |-> "none", path |-> src_key], [err |-> "none", path |-> dst_key]>>
           /\ dResult' = "proceeded"
           /\ firstCall' = <<[api |-> S3FirstApi("rename", overwrite, FALSE),
                              arg |-> IF overwrite THEN src_key ELSE dst_key]>>
    /\ UNCHANGED fsRoot

\* the operation has returned; the driver is idle again
DReturn ==
    /\ dOp # NoOp
    /\ dOp' = NoOp
    /\ dFull' = <<>>
    /\ dResult' = "none"
    /\ firstCall' = <<>>
    /\ UNCHANGED fsRoot

PathInit ==
    /\ fsRoot \in Roots
    /\ dOp = NoOp
    /\ dFull = <<>>
    /\ dResult = "none"
    /\ firstCall = <<>>

\* the driver-path state while another part of the system is followed
PathIdle ==
    /\ fsRoot = <<SegD>>
    /\ dOp = NoOp
    /\ dFull = <<>>
    /\ dResult = "none"
    /\ firstCall = <<>>

FSOpStep ==
    /\ dOp = NoOp
    /\ \E op \in SinglePathOps, rel_path \in RelPaths :
        \E overwrite \in (IF op = "write_stream" THEN BOOLEAN ELSE {FALSE}),
           append \in (IF op = "write_stream" THEN BOOLEAN ELSE {FALSE}) :
            FSOp(op, rel_path, overwrite, append)

FSRenameStep ==
    /\ dOp = NoOp
    /\ \E overwrite \in BOOLEAN :
        \/ \E src \in RelPaths, dst \in OtherPaths : FSRename(src, dst, overwrite)
        \/ \E src \in OtherPaths, dst \in RelPaths : FSRename(src, dst, overwrite)

S3OpStep ==
    /\ dOp = NoOp
    /\ \E op \in SinglePathOps, rel_path \in RelPaths :
        \E overwrite \in (IF op = "write_stream" THEN BOOLEAN ELSE {FALSE}),
           append \in (IF op = "write_stream" THEN BOOLEAN ELSE {FALSE}) :
            S3Op(op, rel_path, overwrite, append)

S3RenameStep ==
    /\ dOp = NoOp
    /\ \E overwrite \in BOOLEAN :
        \/ \E src \in RelPaths, dst \in OtherPaths : S3Rename(src, dst, overwrite)
        \/ \E src \in OtherPaths, dst \in RelPaths : S3Rename(src, dst, overwrite)

PathNext ==
    \/ FSOpStep /\ UNCHANGED notPathVars
    \/ FSRenameStep /\ UNCHANGED notPathVars
    \/ S3OpStep /\ UNCHANGED notPathVars
    \/ S3RenameStep /\ UNCHANGED notPathVars
    \/ DReturn /\ UNCHANGED notPathVars


-----------------------------------------------------------------------------
(* Claims about path resolution *)

\* the segments of a path string as returned by safe_join
StrSegments(s) == SelectSeq(SplitSlash(s, <<>>, <<>>), LAMBDA g : g # <<>>)

BasePath == Realpath(Symlinks, <<>>, fsRoot)

\* the rel_path names a `..` segment (either separator spelling)
HasDotDotSegment(rel_path) ==
    LET parts == SplitSlash(ReplaceBackslash(rel_path), <<>>, <<>>)
    IN  \E i \in 1..Len(parts) : parts[i] = DotDot

\* the rel_path is an absolute-path override
IsAbsoluteOverride(rel_path) == rel_path # <<>> /\ Head(rel_path) = "/"

\* the target, resolved through `..` and symbolic links, is neither the root
\* nor beneath it (segment by segment)
EscapesFsRoot(rel_path) == ~IsSegPrefix(BasePath, ResolvedTarget(fsRoot, rel_path))

NoLinks == <<>>
BucketRoot == <<Str1("b")>>

\* on the object store there are no links: the key climbs above the bucket's
\* notional root through its `..` segments
EscapesKeyRoot(rel_path) ==
    ~IsSegPrefix(BucketRoot, Realpath(NoLinks, BucketRoot, PathParts(normalize_path(rel_path))))

\* C5: safe_join(root, rel_path) either fails with PermissionError or returns
\* the resolved root or a path beneath it, compared segment by segment (so
\* /d2 is outside the root /d).
C5_SafeJoinWithinRoot ==
    dOp.drv = "fs" =>
        \A i \in 1..Len(dFull) :
            \/ dFull[i].err = PermissionError
            \/ IsSegPrefix(BasePath, StrSegments(dFull[i].path))

C7_EscapeRefusedOnBothDrivers ==
    /\ (dOp.drv = "fs" /\ \E i \in 1..Len(dOp.paths) : EscapesFsRoot(dOp.paths[i]))
        => (dResult = PermissionError /\ firstCall = <<>>)
    /\ (dOp.drv = "s3" /\ \E i \in 1..Len(dOp.paths) : EscapesKeyRoot(dOp.paths[i]))
        => (dResult = PermissionError /\ firstCall = <<>>)

-----------------------------------------------------------------------------
(* S3Driver.write_stream: a multipart upload into one key of the bucket *)

\* s3_cfg.CHUNK_SIZE, the part threshold (5 MiB), scaled to bytes of the model
S3_CHUNK_SIZE == 3

\* fs_cfg.CHUNK_SIZE, the read size of FSDriver (1 MiB), on the same scale
FS_CHUNK_SIZE == 2

\* what the bucket holds at the key
Absent == [present |-> FALSE, body |-> <<>>]
Stored(body) == [present |-> TRUE, body |-> body]

RECURSIVE ConcatAll(_)
ConcatAll(seqs) == IF seqs = <<>> THEN <<>> ELSE Head(seqs) \o ConcatAll(Tail(seqs))

\* the bytes numbered from+1 .. from+n: the next n bytes of the inbound data
BytesFrom(from, n) == [i \in 1..n |-> from + i]

NoIn == [chunks |-> 0, bytes |-> 0, raised |-> FALSE]

NoArgs == [overwrite |-> FALSE, append |-> FALSE, driver |-> "none", found |-> Absent]

NoRead == [driver |-> "none", offset |-> 0, length |-> 0, chunks |-> <<>>, exc |-> "none"]

NewSession == [state |-> "open", stored |-> <<>>, completeCalls |-> 0, abortCalls |-> 0]

\* config.DRIVER_KIND values get_driver() accepts: the one driver of a server
DriverKinds == { "fs", "s3" }

MpInit ==
    /\ \E kind \in DriverKinds, held \in { Absent, Stored(<<9>>) } :
          /\ wsArgs = [NoArgs EXCEPT !.driver = kind]
          /\ s3Object = IF kind = "s3" THEN held ELSE Absent
          /\ fsFile = IF kind = "fs" THEN held ELSE Absent
    /\ rsOut = NoRead
    /\ s3Uploads = <<>>
    /\ wsCalls = 0
    /\ wsPc = "idle"
    /\ wsUploadId = 0
    /\ wsBuffer = <<>>
    /\ wsParts = <<>>
    /\ wsPartNumber = 0
    /\ wsExc = "none"
    /\ wsOutcome = "none"
    /\ wsIn = NoIn

\* the bucket and write_stream while another part of the system is followed
MpIdle ==
    /\ s3Object = Absent
    /\ fsFile = Absent
    /\ rsOut = NoRead
    /\ s3Uploads = <<>>
    /\ wsCalls = 0
    /\ wsPc = "idle"
    /\ wsArgs = NoArgs
    /\ wsUploadId = 0
    /\ wsBuffer = <<>>
    /\ wsParts = <<>>
    /\ wsPartNumber = 0
    /\ wsExc = "none"
    /\ wsOutcome = "none"
    /\ wsIn = NoIn

\* the call ends: `outcome` is "returned", "cancelled" or the exception raised
WsEnd(outcome) ==
    /\ wsPc' = "done"
    /\ wsOutcome' = outcome

\* `except Exception as e:` of write_stream: where an exception raised inside
\* the try block goes, given upload_id
ExceptClauseNoAbort(upload_id) == "done"
ExceptClause(upload_id) == IF upload_id # 0 THEN "abort" ELSE "done"

\* an Exception is raised inside the try block
WsRaiseInTry(exc) ==
    /\ wsExc' = exc
    /\ wsPc' = ExceptClause(wsUploadId)
    /\ wsOutcome' = IF ExceptClause(wsUploadId) = "done" THEN exc ELSE wsOutcome

\* asyncio.CancelledError thrown into the task at an await: a BaseException,
\* which `except Exception` does not catch
WsCancelled ==
    /\ WsEnd("CancelledError")
    /\ UNCHANGED wsExc

\* `if not overwrite:` of S3Driver.write_stream: the existence check is the
\* first backend call unless overwrite is set
WsFirstPcNoHead(overwrite) == "create"
WsFirstPc(overwrite) == IF overwrite THEN "create" ELSE "head"

\* S3Driver.write_stream(rel_path, data_stream, overwrite, append) is called
WsCall(overwrite, append) ==
    /\ wsPc = "idle"
    /\ wsArgs.driver = "s3"
    /\ wsCalls < MaxWrites
    /\ wsCalls' = wsCalls + 1
    /\ wsArgs' = [overwrite |-> overwrite, append |-> append, driver |-> "s3",
                  found |-> s3Object]
    /\ rsOut' = NoRead
    /\ wsUploadId' = 0
    /\ wsBuffer' = <<>>
    /\ wsParts' = <<>>
    /\ wsPartNumber' = 0
    /\ wsExc' = "none"
    /\ wsIn' = NoIn
    /\ IF append
       THEN WsEnd("NotImplementedError")
       ELSE /\ wsPc' = WsFirstPc(overwrite)
            /\ wsOutcome' = "none"
    /\ UNCHANGED <<s3Object, s3Uploads, fsFile>>

\* `await client.head_object(...)` of the overwrite=False check
WsHead ==
    /\ wsPc = "head"
    /\ \/ /\ s3Object # Absent
          /\ WsEnd("FileExistsError")
       \/ /\ s3Object = Absent           \* ClientError 404: go on
          /\ wsPc' = "create"
          /\ UNCHANGED wsOutcome
       \/ WsEnd("ClientError")           \* any other ClientError is re-raised
       \/ WsEnd("CancelledError")
    /\ UNCHANGED <<fsFile, rsOut, s3Object, s3Uploads, wsCalls, wsArgs, wsUploadId, wsBuffer, wsParts,
                   wsPartNumber, wsExc, wsIn>>

\* `mp = await client.create_multipart_upload(...)` and the four assignments
WsCreate ==
    /\ wsPc = "create"
    /\ \/ /\ s3Uploads' = Append(s3Uploads, NewSession)
          /\ wsUploadId' = Len(s3Uploads) + 1
          /\ wsParts' = <<>>
          /\ wsPartNumber' = 1
          /\ wsBuffer' = <<>>
          /\ wsPc' = "recv"
          /\ UNCHANGED <<wsExc, wsOutcome>>
       \/ /\ WsRaiseInTry("ClientError")
          /\ UNCHANGED <<s3Uploads, wsUploadId, wsParts, wsPartNumber, wsBuffer>>
       \/ /\ WsCancelled
          /\ UNCHANGED <<s3Uploads, wsUploadId, wsParts, wsPartNumber, wsBuffer>>
    /\ UNCHANGED <<fsFile, rsOut, s3Object, wsCalls, wsArgs, wsIn>>

\* `if len(buffer) >= s3_cfg.CHUNK_SIZE:` of the loop body
BufferFullAtOnce(buffer) == Len(buffer) >= 1
BufferFull(buffer) == Len(buffer) >= S3_CHUNK_SIZE

\* `async for chunk in data_stream:` yields a chunk of n bytes
WsRecvChunk(n) ==
    /\ wsPc = "recv"
    /\ wsIn.chunks < MaxChunks
    /\ LET chunk == BytesFrom(wsIn.bytes, n)
           buffer == wsBuffer \o chunk
       IN  /\ wsBuffer' = buffer
           /\ wsIn' = [wsIn EXCEPT !.chunks = @ + 1, !.bytes = @ + n]
           /\ wsPc' = IF BufferFull(buffer) THEN "upload" ELSE "recv"
    /\ UNCHANGED <<fsFile, rsOut, s3Object, s3Uploads, wsCalls, wsArgs, wsUploadId, wsParts,
                   wsPartNumber, wsExc, wsOutcome>>

\* `if buffer:` after the loop
HasLeftoverAlways(buffer) == TRUE
HasLeftover(buffer) == buffer # <<>>

\* the inbound sequence is exhausted: the leftover buffer is the final part
WsRecvEnd ==
    /\ wsPc = "recv"
    /\ wsPc' = IF HasLeftover(wsBuffer) THEN "final" ELSE "complete"
    /\ UNCHANGED <<fsFile, rsOut, s3Object, s3Uploads, wsCalls, wsArgs, wsUploadId, wsBuffer, wsParts,
                   wsPartNumber, wsExc, wsOutcome, wsIn>>

\* the inbound sequence raises
WsRecvRaise ==
    /\ wsPc = "recv"
    /\ wsIn' = [wsIn EXCEPT !.raised = TRUE]
    /\ WsRaiseInTry("InboundError")
    /\ UNCHANGED <<fsFile, rsOut, s3Object, s3Uploads, wsCalls, wsArgs, wsUploadId, wsBuffer, wsParts,
                   wsPartNumber>>

\* the task is cancelled while suspended on the inbound sequence
WsRecvCancelled ==
    /\ wsPc = "recv"
    /\ WsCancelled
    /\ UNCHANGED <<fsFile, rsOut, s3Object, s3Uploads, wsCalls, wsArgs, wsUploadId, wsBuffer, wsParts,
                   wsPartNumber, wsIn>>

\* `part = await client.upload_part(...)`, inside the loop ("upload") or after
\* it ("final"), with the bookkeeping that follows
WsUploadPart ==
    /\ wsPc \in { "upload", "final" }
    /\ \/ /\ s3Uploads' = [s3Uploads EXCEPT ![wsUploadId].stored =
                              Append(@, [PartNumber |-> wsPartNumber, Body |-> wsBuffer])]
          /\ wsParts' = Append(wsParts, [PartNumber |-> wsPartNumber, ETag |-> wsBuffer])
          /\ IF wsPc = "upload"
             THEN /\ wsPartNumber' = wsPartNumber + 1
                  /\ wsBuffer' = <<>>
                  /\ wsPc' = "recv"
             ELSE /\ wsPc' = "complete"
                  /\ UNCHANGED <<wsPartNumber, wsBuffer>>
          /\ UNCHANGED <<wsExc, wsOutcome>>
       \/ /\ WsRaiseInTry("ClientError")
          /\ UNCHANGED <<s3Uploads, wsParts, wsPartNumber, wsBuffer>>
       \/ /\ WsCancelled
          /\ UNCHANGED <<s3Uploads, wsParts, wsPartNumber, wsBuffer>>
    /\ UNCHANGED <<fsFile, rsOut, s3Object, wsCalls, wsArgs, wsUploadId, wsIn>>

\* the body S3 assembles from the listed parts (each matched by number and tag)
AssembledBody(session, parts) ==
    ConcatAll([i \in 1..Len(parts) |->
        LET hit == { j \in 1..Len(session.stored) :
                        /\ session.stored[j].PartNumber = parts[i].PartNumber
                        /\ session.stored[j].Body = parts[i].ETag }
        IN  IF hit = {} THEN <<>> ELSE session.stored[CHOOSE j \in hit : TRUE].Body])

\* `await client.complete_multipart_upload(...)`; S3 refuses an empty part list
\* with the ClientError MalformedXML. The call is a request and an awaited
\* response: when the response does not arrive (the connection breaks, or
\* the task is cancelled while it waits) the store may have refused the
\* request, or not received it, or carried it out
WsComplete ==
    /\ wsPc = "complete"
    /\ \/ /\ wsParts # <<>>
          /\ s3Uploads' = [s3Uploads EXCEPT ![wsUploadId].state = "completed",
                                            ![wsUploadId].completeCalls = @ + 1]
          /\ s3Object' = Stored(AssembledBody(s3Uploads[wsUploadId], wsParts))
          /\ WsEnd("returned")
          /\ UNCHANGED wsExc
       \/ /\ wsParts = <<>>
          /\ s3Uploads' = [s3Uploads EXCEPT ![wsUploadId].completeCalls = @ + 1]
          /\ WsRaiseInTry("MalformedXML")
          /\ UNCHANGED s3Object
       \/ /\ s3Uploads' = [s3Uploads EXCEPT ![wsUploadId].completeCalls = @ + 1]
          /\ WsRaiseInTry("ClientError")
          /\ UNCHANGED s3Object
       \/ /\ s3Uploads' = [s3Uploads EXCEPT ![wsUploadId].completeCalls = @ + 1]
          /\ WsCancelled
          /\ UNCHANGED s3Object
       \/ /\ wsParts # <<>>
          /\ s3Uploads' = [s3Uploads EXCEPT ![wsUploadId].state = "completed",
                                            ![wsUploadId].completeCalls = @ + 1]
          /\ s3Object' = Stored(AssembledBody(s3Uploads[wsUploadId], wsParts))
          /\ (WsRaiseInTry("ClientError") \/ WsCancelled)
    /\ UNCHANGED <<fsFile, rsOut, wsCalls, wsArgs, wsUploadId, wsBuffer, wsParts, wsPartNumber, wsIn>>

\* `await client.abort_multipart_upload(...)` in the except clause, then
\* `raise e`; a session that was completed is gone and S3 answers NoSuchUpload
WsAbort ==
    /\ wsPc = "abort"
    /\ \/ /\ s3Uploads[wsUploadId].state = "open"
          /\ s3Uploads' = [s3Uploads EXCEPT ![wsUploadId].state = "aborted",
                                            ![wsUploadId].abortCalls = @ + 1]
          /\ WsEnd(wsExc)
       \/ /\ s3Uploads' = [s3Uploads EXCEPT ![wsUploadId].abortCalls = @ + 1]
          /\ WsEnd("AbortClientError")
       \/ /\ s3Uploads' = [s3Uploads EXCEPT ![wsUploadId].abortCalls = @ + 1]
          /\ WsEnd("CancelledError")
    /\ UNCHANGED <<fsFile, rsOut, s3Object, wsCalls, wsArgs, wsUploadId, wsBuffer, wsParts, wsPartNumber,
                   wsExc, wsIn>>

\* the caller has the outcome and the locals of the call are gone; the driver
\* can be called again. No later call touches the sessions opened so far:
\* their state and call counts are kept, their parts are not followed further.
WsReturn ==
    /\ wsPc = "done"
    /\ wsPc' = "idle"
    /\ wsUploadId' = 0
    /\ wsBuffer' = <<>>
    /\ wsParts' = <<>>
    /\ wsPartNumber' = 0
    /\ wsExc' = "none"
    /\ s3Uploads' = [i \in DOMAIN s3Uploads |-> [s3Uploads[i] EXCEPT !.stored = <<>>]]
    /\ UNCHANGED <<fsFile, rsOut, s3Object, wsCalls, wsArgs, wsOutcome, wsIn>>

-----------------------------------------------------------------------------
(* FSDriver.write_stream into one file directly under FS_ROOT, and read_stream
   of both drivers *)

\* FSDriver.write_stream(rel_path, data_stream, overwrite, append) is called
FwCall(overwrite, append) ==
    /\ wsPc = "idle"
    /\ wsArgs.driver = "fs"
    /\ wsCalls < MaxWrites
    /\ wsCalls' = wsCalls + 1
    /\ wsArgs' = [overwrite |-> overwrite, append |-> append, driver |-> "fs",
                  found |-> fsFile]
    /\ rsOut' = NoRead
    /\ wsUploadId' = 0
    /\ wsBuffer' = <<>>
    /\ wsParts' = <<>>
    /\ wsPartNumber' = 0
    /\ wsExc' = "none"
    /\ wsIn' = NoIn
    /\ wsOutcome' = "none"
    /\ wsPc' = IF ~overwrite /\ ~append THEN "fs_exists" ELSE "fs_open"
    /\ UNCHANGED <<s3Object, s3Uploads, fsFile>>

\* `if await asyncio.to_thread(os.path.exists, full_path): raise FileExistsError`
FwExists ==
    /\ wsPc = "fs_exists"
    /\ \/ /\ fsFile # Absent
          /\ WsEnd("FileExistsError")
       \/ /\ fsFile = Absent
          /\ wsPc' = "fs_open"
          /\ UNCHANGED wsOutcome
       \/ WsEnd("CancelledError")
    /\ UNCHANGED <<fsFile, rsOut, s3Object, s3Uploads, wsCalls, wsArgs, wsUploadId,
                   wsBuffer, wsParts, wsPartNumber, wsExc, wsIn>>

\* the file after open(full_path, mode): 'wb' creates or truncates, 'ab' creates
\* or keeps
Opened(file, append) == IF append /\ file # Absent THEN file ELSE Stored(<<>>)

\* `async with aiofiles.open(full_path, mode=mode) as f:` (the parent directory
\* is FS_ROOT, which exists)
FwOpen ==
    /\ wsPc = "fs_open"
    /\ \/ /\ fsFile' = Opened(fsFile, wsArgs.append)
          /\ wsPc' = "fs_recv"
          /\ UNCHANGED wsOutcome
       \/ /\ WsEnd("OSError")
          /\ UNCHANGED fsFile
       \/ /\ WsEnd("CancelledError")
          /\ UNCHANGED fsFile
    /\ UNCHANGED <<rsOut, s3Object, s3Uploads, wsCalls, wsArgs, wsUploadId, wsBuffer,
                   wsParts, wsPartNumber, wsExc, wsIn>>

\* `async for chunk in data_stream: await f.write(chunk)` for a chunk of n bytes
FwWriteChunk(n) ==
    /\ wsPc = "fs_recv"
    /\ wsIn.chunks < MaxChunks
    /\ LET chunk == BytesFrom(wsIn.bytes, n)
       IN  /\ wsIn' = [wsIn EXCEPT !.chunks = @ + 1, !.bytes = @ + n]
           /\ \/ /\ fsFile' = Stored(fsFile.body \o chunk)
                 /\ UNCHANGED <<wsPc, wsOutcome>>
              \/ /\ WsEnd("OSError")
                 /\ UNCHANGED fsFile
    /\ UNCHANGED <<rsOut, s3Object, s3Uploads, wsCalls, wsArgs, wsUploadId, wsBuffer,
                   wsParts, wsPartNumber, wsExc>>

\* the inbound sequence is exhausted: the file is closed and the call returns
FwRecvEnd ==
    /\ wsPc = "fs_recv"
    /\ WsEnd("returned")
    /\ UNCHANGED <<fsFile, rsOut, s3Object, s3Uploads, wsCalls, wsArgs, wsUploadId,
                   wsBuffer, wsParts, wsPartNumber, wsExc, wsIn>>

\* the inbound sequence raises: the file is closed and the exception leaves
FwRecvRaise ==
    /\ wsPc = "fs_recv"
    /\ wsIn' = [wsIn EXCEPT !.raised = TRUE]
    /\ WsEnd("InboundError")
    /\ UNCHANGED <<fsFile, rsOut, s3Object, s3Uploads, wsCalls, wsArgs, wsUploadId,
                   wsBuffer, wsParts, wsPartNumber, wsExc>>

\* the task is cancelled while suspended in the loop
FwRecvCancelled ==
    /\ wsPc = "fs_recv"
    /\ WsEnd("CancelledError")
    /\ UNCHANGED <<fsFile, rsOut, s3Object, s3Uploads, wsCalls, wsArgs, wsUploadId,
                   wsBuffer, wsParts, wsPartNumber, wsExc, wsIn>>

Min(a, b) == IF a <= b THEN a ELSE b

\* the chunks FSDriver.read_stream yields from position pos of the file:
\* the `while True:` loop with its two breaks
RECURSIVE FsReadLoop(_, _, _, _)
FsReadLoop(body, pos, length, bytes_read) ==
    LET remaining == length - bytes_read
        to_read == IF length > 0 THEN Min(FS_CHUNK_SIZE, remaining) ELSE FS_CHUNK_SIZE
        chunk == SubSeq(body, pos + 1, Min(pos + to_read, Len(body)))
    IN  IF length > 0 /\ remaining <= 0 THEN <<>>
        ELSE IF chunk = <<>> THEN <<>>
        ELSE <<chunk>> \o FsReadLoop(body, pos + Len(chunk), length,
                                     bytes_read + Len(chunk))

\* FSDriver.read_stream(rel_path, offset, length), run to exhaustion
FSDriver_read_stream(offset, length) ==
    /\ wsPc = "idle"
    /\ wsArgs.driver = "fs"
    /\ rsOut' = IF fsFile = Absent
                THEN [driver |-> "fs", offset |-> offset, length |-> length,
                      chunks |-> <<>>, exc |-> "FileNotFoundError"]
                ELSE [driver |-> "fs", offset |-> offset, length |-> length,
                      chunks |-> FsReadLoop(fsFile.body, offset, length, 0),
                      exc |-> "none"]
    /\ UNCHANGED <<fsFile, s3Object, s3Uploads, wsCalls, wsPc, wsArgs, wsUploadId,
                   wsBuffer, wsParts, wsPartNumber, wsExc, wsOutcome, wsIn>>

\* body.iter_chunks(chunk_size): the body in pieces of at most size bytes
RECURSIVE IterChunks(_, _)
IterChunks(body, size) ==
    IF body = <<>> THEN <<>>
    ELSE <<SubSeq(body, 1, Min(size, Len(body)))>>
         \o IterChunks(SubSeq(body, Min(size, Len(body)) + 1, Len(body)), size)

\* a get_object that ignores the Range header
GetObjectWhole(object, offset, length) ==
    IF object = Absent THEN [exc |-> "NoSuchKey", body |-> <<>>]
    ELSE [exc |-> "none", body |-> object.body]

\* what get_object answers: the whole body without a Range header
\* (offset = 0 and length = 0), the bytes offset .. offset+length-1 (to the end
\* when length = 0) with one, InvalidRange when the range starts past the end
GetObject(object, offset, length) ==
    IF object = Absent THEN [exc |-> "NoSuchKey", body |-> <<>>]
    ELSE IF offset = 0 /\ length = 0 THEN [exc |-> "none", body |-> object.body]
    ELSE IF offset >= Len(object.body) THEN [exc |-> "InvalidRange", body |-> <<>>]
    ELSE [exc |-> "none",
          body |-> SubSeq(object.body, offset + 1,
                          IF length > 0 THEN Min(offset + length, Len(object.body))
                                        ELSE Len(object.body))]

\* S3Driver.read_stream(rel_path, offset, length), run to exhaustion: NoSuchKey
\* becomes FileNotFoundError, InvalidRange an empty stream, any other
\* ClientError is re-raised
S3Driver_read_stream(offset, length) ==
    /\ wsPc = "idle"
    /\ wsArgs.driver = "s3"
    /\ LET response == GetObject(s3Object, offset, length)
       IN  \/ rsOut' = [driver |-> "s3", offset |-> offset, length |-> length,
                        chunks |-> IterChunks(response.body, S3_CHUNK_SIZE),
                        exc |-> IF response.exc = "NoSuchKey" THEN "FileNotFoundError"
                                ELSE "none"]
           \/ rsOut' = [driver |-> "s3", offset |-> offset, length |-> length,
                        chunks |-> <<>>, exc |-> "ClientError"]
    /\ UNCHANGED <<fsFile, s3Object, s3Uploads, wsCalls, wsPc, wsArgs, wsUploadId,
                   wsBuffer, wsParts, wsPartNumber, wsExc, wsOutcome, wsIn>>

WsCallStep == \E overwrite \in BOOLEAN, append \in BOOLEAN : WsCall(overwrite, append)

FwCallStep == \E overwrite \in BOOLEAN, append \in BOOLEAN : FwCall(overwrite, append)

FwWriteChunkStep == \E n \in 0..MaxChunkLen : FwWriteChunk(n)

\* the offsets and lengths read_stream is called with
ReadArgs == 0..1

FSReadStep == \E offset \in ReadArgs, length \in ReadArgs : FSDriver_read_stream(offset, length)

S3ReadStep == \E offset \in ReadArgs, length \in ReadArgs : S3Driver_read_stream(offset, length)

WsRecvChunkStep == \E n \in 0..MaxChunkLen : WsRecvChunk(n)

\* the largest offset and the largest length of the reads of a stored object
MaxReadArg == 3

\* the largest size of the stored object that is read
MaxBody == 5

\* a server of either driver whose path holds nothing or an object of up to
\* MaxBody bytes, no write_stream having been called
RsInit ==
    /\ \E kind \in DriverKinds,
          held \in { Absent } \cup { Stored(BytesFrom(0, n)) : n \in 0 .. MaxBody } :
          /\ wsArgs = [NoArgs EXCEPT !.driver = kind]
          /\ s3Object = IF kind = "s3" THEN held ELSE Absent
          /\ fsFile = IF kind = "fs" THEN held ELSE Absent
    /\ rsOut = NoRead
    /\ s3Uploads = <<>>
    /\ wsCalls = 0
    /\ wsPc = "idle"
    /\ wsUploadId = 0
    /\ wsBuffer = <<>>
    /\ wsParts = <<>>
    /\ wsPartNumber = 0
    /\ wsExc = "none"
    /\ wsOutcome = "none"
    /\ wsIn = NoIn

FSReadAny ==
    \E offset \in 0 .. MaxReadArg, length \in 0 .. MaxReadArg :
        FSDriver_read_stream(offset, length)

S3ReadAny ==
    \E offset \in 0 .. MaxReadArg, length \in 0 .. MaxReadArg :
        S3Driver_read_stream(offset, length)

RsNext ==
    \/ FSReadAny /\ UNCHANGED notMpVars
    \/ S3ReadAny /\ UNCHANGED notMpVars

MpNext ==
    \/ WsCallStep /\ UNCHANGED notMpVars
    \/ WsHead /\ UNCHANGED notMpVars
    \/ WsCreate /\ UNCHANGED notMpVars
    \/ WsRecvChunkStep /\ UNCHANGED notMpVars
    \/ WsRecvEnd /\ UNCHANGED notMpVars
    \/ WsRecvRaise /\ UNCHANGED notMpVars
    \/ WsRecvCancelled /\ UNCHANGED notMpVars
    \/ WsUploadPart /\ UNCHANGED notMpVars
    \/ WsComplete /\ UNCHANGED notMpVars
    \/ WsAbort /\ UNCHANGED notMpVars
    \/ WsReturn /\ UNCHANGED notMpVars
    \/ FwCallStep /\ UNCHANGED notMpVars
    \/ FwExists /\ UNCHANGED notMpVars
    \/ FwOpen /\ UNCHANGED notMpVars
    \/ FwWriteChunkStep /\ UNCHANGED notMpVars
    \/ FwRecvEnd /\ UNCHANGED notMpVars
    \/ FwRecvRaise /\ UNCHANGED notMpVars
    \/ FwRecvCancelled /\ UNCHANGED notMpVars
    \/ FSReadStep /\ UNCHANGED notMpVars
    \/ S3ReadStep /\ UNCHANGED notMpVars

-----------------------------------------------------------------------------
(* mkdirs, rename and remove of the two drivers, over a small namespace *)

\* rel_paths, as their segments: two top-level names and a child of each
Nodes == { <<"a">>, <<"a", "x">>, <<"d">>, <<"d", "x">> }

\* the keys of the bucket: the rel_paths, and each of them with a trailing "/"
\* (the last segment empty), which is the key mkdirs writes
Keys == Nodes \cup { n \o <<"">> : n \in Nodes }

\* n lies strictly below p: as a path, and as a key having the prefix p + "/"
Under(n, p) == Len(n) > Len(p) /\ SubSeq(n, 1, Len(p)) = p

\* what the file system has at a path; FS_ROOT itself is a directory
KindAt(tree, n) == IF n = <<>> THEN "dir" ELSE tree[n]

Ancestors(n) == { SubSeq(n, 1, i) : i \in 0 .. Len(n) - 1 }

\* a component of the path to n is a regular file
ThroughFile(tree, n) == \E p \in Ancestors(n) : KindAt(tree, p) \notin { "none", "dir" }

Populated(tree, p) == \E n \in DOMAIN tree : Under(n, p) /\ tree[n] # "none"

Raised(exc, held) == [exc |-> exc, store |-> held]
Returned(held) == [exc |-> "none", store |-> held]

\* os.makedirs(full_path, exist_ok=exist_ok)
os_makedirs(tree, p, exist_ok) ==
    IF KindAt(tree, p) = "dir"
    THEN IF exist_ok THEN Returned(tree) ELSE Raised("FileExistsError", tree)
    ELSE IF KindAt(tree, p) # "none" THEN Raised("FileExistsError", tree)
    ELSE IF ThroughFile(tree, p) THEN Raised("NotADirectoryError", tree)
    ELSE Returned([n \in Nodes |-> IF n = p \/ Under(p, n) THEN "dir" ELSE tree[n]])

\* FSDriver.mkdirs(rel_path, exist_ok)
FSDriver_mkdirs_result(tree, p, exist_ok) == os_makedirs(tree, p, exist_ok)

\* the tree once src has been moved onto dst, with everything below it
Moved(tree, src, dst) ==
    [n \in Nodes |->
        IF n = dst THEN tree[src]
        ELSE IF Under(n, dst)
             THEN LET from == src \o SubSeq(n, Len(dst) + 1, Len(n))
                  IN  IF from \in Nodes THEN tree[from] ELSE "none"
        ELSE IF n = src \/ Under(n, src) THEN "none"
        ELSE tree[n]]

\* os.rename(full_src, full_dst)
os_rename(tree, src, dst) ==
    IF ThroughFile(tree, src) \/ ThroughFile(tree, dst)
    THEN Raised("NotADirectoryError", tree)
    ELSE IF KindAt(tree, src) = "none" \/ KindAt(tree, SubSeq(dst, 1, Len(dst) - 1)) = "none"
    THEN Raised("FileNotFoundError", tree)
    ELSE IF src = dst THEN Returned(tree)
    ELSE IF KindAt(tree, src) = "dir"
    THEN IF KindAt(tree, dst) \notin { "none", "dir" } THEN Raised("NotADirectoryError", tree)
         ELSE IF Populated(tree, dst) THEN Raised("OSError39", tree)
         ELSE Returned(Moved(tree, src, dst))
    ELSE IF KindAt(tree, dst) = "dir" THEN Raised("IsADirectoryError", tree)
         ELSE Returned(Moved(tree, src, dst))

\* `if not overwrite:` of FSDriver.rename: os.path.exists(full_dst)
FsRenameRefused(tree, dst, overwrite) == ~overwrite /\ KindAt(tree, dst) # "none"

\* FSDriver.rename(src, dst, overwrite)
FSDriver_rename_result(tree, src, dst, overwrite) ==
    IF FsRenameRefused(tree, dst, overwrite)
    THEN Raised("FileExistsError", tree)
    ELSE os_rename(tree, src, dst)

\* FSDriver.remove(rel_path, recursive): shutil.rmtree or os.rmdir for a
\* directory, os.remove for anything else
FSDriver_remove_result(tree, p, recursive) ==
    IF KindAt(tree, p) = "dir"
    THEN IF recursive
         THEN Returned([n \in Nodes |-> IF n = p \/ Under(n, p) THEN "none" ELSE tree[n]])
         ELSE IF Populated(tree, p) THEN Raised("OSError39", tree)
         ELSE Returned([tree EXCEPT ![p] = "none"])
    ELSE IF ThroughFile(tree, p) THEN Raised("NotADirectoryError", tree)
    ELSE IF KindAt(tree, p) = "none" THEN Raised("FileNotFoundError", tree)
    ELSE Returned([tree EXCEPT ![p] = "none"])

\* S3Driver._is_dir(key): list_objects_v2(Prefix=key + "/", MaxKeys=1) finds a key
_is_dir(bucket, key) == \E k \in Keys : Under(k, key) /\ bucket[k] # "none"

\* S3Driver.mkdirs(rel_path, exist_ok): put_object of the key with a trailing "/"
S3Driver_mkdirs_result(bucket, p, exist_ok) ==
    Returned([bucket EXCEPT ![p \o <<"">>] = "marker"])

\* S3Driver.rename(src, dst, overwrite): head_object of dst unless overwrite,
\* then copy_object and delete_object
S3Driver_rename_result(bucket, src, dst, overwrite) ==
    IF ~overwrite /\ bucket[dst] # "none" THEN Raised("FileExistsError", bucket)
    ELSE IF bucket[src] = "none" THEN Raised("ClientError", bucket)
    ELSE Returned([bucket EXCEPT ![dst] = bucket[src], ![src] = "none"])

\* S3Driver.remove(rel_path, recursive)
S3Driver_remove_result(bucket, p, recursive) ==
    IF bucket[p] # "none" THEN Returned([bucket EXCEPT ![p] = "none"])
    ELSE IF recursive
         THEN Returned([k \in Keys |-> IF Under(k, p) THEN "none" ELSE bucket[k]])
    ELSE IF _is_dir(bucket, p) THEN Raised("OSError39", bucket)
    ELSE Returned(bucket)

\* the trees the server can start on: each file has its own content
FsTrees ==
    { tree \in [Nodes -> { "none", "dir", "f1", "f2", "f3", "f4" }] :
        /\ tree[<<"a">>] \in { "none", "dir", "f1" }
        /\ tree[<<"d">>] \in { "none", "dir", "f2" }
        /\ tree[<<"a", "x">>] \in { "none", "f3" }
        /\ tree[<<"d", "x">>] \in { "none", "dir", "f4" }
        /\ \A n \in Nodes : tree[n] # "none" => KindAt(tree, SubSeq(n, 1, Len(n) - 1)) = "dir" }

\* the buckets the server can start on
S3Buckets ==
    { bucket \in [Keys -> { "none", "marker", "f1", "f2", "f4" }] :
        /\ bucket[<<"a">>] \in { "none", "f1" }
        /\ bucket[<<"d">>] \in { "none", "f2" }
        /\ bucket[<<"d", "">>] \in { "none", "marker" }
        /\ bucket[<<"d", "x">>] \in { "none", "f4" }
        /\ \A k \in Keys \ { <<"a">>, <<"d">>, <<"d", "">>, <<"d", "x">> } : bucket[k] = "none" }

EmptyTree == [n \in Nodes |-> "none"]
EmptyBucket == [k \in Keys |-> "none"]

NsInit ==
    /\ nsKind \in DriverKinds
    /\ fsTree \in IF nsKind = "fs" THEN FsTrees ELSE { EmptyTree }
    /\ s3Bucket \in IF nsKind = "s3" THEN S3Buckets ELSE { EmptyBucket }
    /\ nsLog = <<>>
    /\ nsCalls = 0

\* the namespace while another part of the system is followed
NsIdle ==
    /\ nsKind = "fs"
    /\ fsTree = EmptyTree
    /\ s3Bucket = EmptyBucket
    /\ nsLog = <<>>
    /\ nsCalls = 0

\* the call just made joins the last one in the log
Logged(op, a, b, flag, exc, before) ==
    LET call == [op |-> op, a |-> a, b |-> b, flag |-> flag, exc |-> exc,
                 before |-> before]
    IN  IF Len(nsLog) = 2 THEN <<nsLog[2], call>> ELSE Append(nsLog, call)

\* a driver call on the file system, from entry to return or raise
FsCall(op, a, b, flag, result) ==
    /\ nsKind = "fs"
    /\ nsCalls < MaxOps
    /\ nsCalls' = nsCalls + 1
    /\ fsTree' = result.store
    /\ nsLog' = Logged(op, a, b, flag, result.exc, fsTree)
    /\ UNCHANGED <<nsKind, s3Bucket>>

\* a driver call on the bucket, from entry to return or raise
S3Call(op, a, b, flag, result) ==
    /\ nsKind = "s3"
    /\ nsCalls < MaxOps
    /\ nsCalls' = nsCalls + 1
    /\ s3Bucket' = result.store
    /\ nsLog' = Logged(op, a, b, flag, result.exc, s3Bucket)
    /\ UNCHANGED <<nsKind, fsTree>>

\* the pairs rename is called with: two names of the same directory level
RenamePairs == { pair \in Nodes \X Nodes : pair[1] # pair[2] /\ Len(pair[1]) = Len(pair[2]) }

FSDriver_mkdirs ==
    \E p \in Nodes, exist_ok \in BOOLEAN :
        FsCall("mkdirs", p, p, exist_ok, FSDriver_mkdirs_result(fsTree, p, exist_ok))

FSDriver_rename ==
    \E pair \in RenamePairs, overwrite \in BOOLEAN :
        FsCall("rename", pair[1], pair[2], overwrite,
               FSDriver_rename_result(fsTree, pair[1], pair[2], overwrite))

FSDriver_remove ==
    \E p \in Nodes, recursive \in BOOLEAN :
        FsCall("remove", p, p, recursive, FSDriver_remove_result(fsTree, p, recursive))

S3Driver_mkdirs ==
    \E p \in Nodes, exist_ok \in BOOLEAN :
        S3Call("mkdirs", p, p, exist_ok, S3Driver_mkdirs_result(s3Bucket, p, exist_ok))

S3Driver_rename ==
    \E pair \in RenamePairs, overwrite \in BOOLEAN :
        S3Call("rename", pair[1], pair[2], overwrite,
               S3Driver_rename_result(s3Bucket, pair[1], pair[2], overwrite))

S3Driver_remove ==
    \E p \in Nodes, recursive \in BOOLEAN :
        S3Call("remove", p, p, recursive, S3Driver_remove_result(s3Bucket, p, recursive))

NsNext ==
    \/ FSDriver_mkdirs /\ UNCHANGED notNsVars
    \/ FSDriver_rename /\ UNCHANGED notNsVars
    \/ FSDriver_remove /\ UNCHANGED notNsVars
    \/ S3Driver_mkdirs /\ UNCHANGED notNsVars
    \/ S3Driver_rename /\ UNCHANGED notNsVars
    \/ S3Driver_remove /\ UNCHANGED notNsVars

-----------------------------------------------------------------------------
(* drivers/s3/s3_driver_drv.py: rename, one backend call at a time *)

\* the Rename RPCs in flight, one handler task each
RnTasks == { 1, 2 }

\* the keys they name and what a key can hold
RnKeys == { "a", "b" }
RnContents == { "X", "Y" }

NoSnapshot == [src |-> "unseen", dst |-> "unseen"]

\* a task's locals; `copied`, `deletes` and `atEnd` record history: what its
\* copy_object copied, its delete_object calls, and what src_key and dst_key
\* held when it ended
RnIdleTask ==
    [pc |-> "idle", src |-> "a", dst |-> "a", overwrite |-> FALSE, copied |-> "none",
     deletes |-> 0, exc |-> "none", ended |-> "", atEnd |-> NoSnapshot]

RnInit ==
    \E held \in { "none", "Y" } :
        rn = [bucket |-> [k \in RnKeys |-> IF k = "a" THEN "X" ELSE held],
              tasks |-> [t \in RnTasks |-> RnIdleTask]]

\* the task is over: it returned, raised or its process was killed
RnEnd(t, task, bucket, how, e) ==
    rn' = [bucket |-> bucket,
           tasks |-> [rn.tasks EXCEPT ![t] =
                         [task EXCEPT !.pc = "done", !.ended = how, !.exc = e,
                                      !.atEnd = [src |-> bucket[task.src],
                                                 dst |-> bucket[task.dst]]]]]

RnGoto(t, task, pc) ==
    rn' = [rn EXCEPT !.tasks[t] = [task EXCEPT !.pc = pc]]

\* rename(src, dst, overwrite) is called: `if not overwrite:` comes first
RnCall(t) ==
    /\ rn.tasks[t].pc = "idle"
    /\ \E src \in RnKeys, dst \in RnKeys, overwrite \in BOOLEAN :
          RnGoto(t, [rn.tasks[t] EXCEPT !.src = src, !.dst = dst, !.overwrite = overwrite],
                 IF overwrite THEN "copy" ELSE "head")
    /\ UNCHANGED <<ld, rb, dc>>

\* head_object(dst_key): found -> FileExistsError; a 404 is swallowed; any
\* other ClientError is re-raised
RnHead(t) ==
    /\ rn.tasks[t].pc = "head"
    /\ \/ IF rn.bucket[rn.tasks[t].dst] # "none"
          THEN RnEnd(t, rn.tasks[t], rn.bucket, "raised", "FileExistsError")
          ELSE RnGoto(t, rn.tasks[t], "copy")
       \/ RnEnd(t, rn.tasks[t], rn.bucket, "raised", "ClientError")
    /\ UNCHANGED <<ld, rb, dc>>

\* copy_object(dst_key <- src_key): NoSuchKey when src_key holds nothing,
\* InvalidRequest when an object is copied onto itself, or a failing backend
RnCopy(t) ==
    /\ rn.tasks[t].pc = "copy"
    /\ LET task == rn.tasks[t]
       IN  \/ IF rn.bucket[task.src] = "none" \/ task.src = task.dst
              THEN RnEnd(t, task, rn.bucket, "raised", "ClientError")
              ELSE rn' = [bucket |-> [rn.bucket EXCEPT ![task.dst] = rn.bucket[task.src]],
                          tasks |-> [rn.tasks EXCEPT ![t] =
                                        [task EXCEPT !.pc = "delete",
                                                     !.copied = rn.bucket[task.src]]]]
           \/ RnEnd(t, task, rn.bucket, "raised", "ClientError")
    /\ UNCHANGED <<ld, rb, dc>>

\* delete_object(src_key), then the return; a failing backend raises
RnDelete(t) ==
    /\ rn.tasks[t].pc = "delete"
    /\ LET task == [rn.tasks[t] EXCEPT !.deletes = @ + 1]
       IN  \/ RnEnd(t, task, [rn.bucket EXCEPT ![task.src] = "none"], "returned", "none")
           \/ RnEnd(t, task, rn.bucket, "raised", "ClientError")
    /\ UNCHANGED <<ld, rb, dc>>

\* the server process is killed while the task waits for a backend call
RnCrash(t) ==
    /\ rn.tasks[t].pc \in { "head", "copy", "delete" }
    /\ RnEnd(t, rn.tasks[t], rn.bucket, "crashed", "none")
    /\ UNCHANGED <<ld, rb, dc>>

RnNext ==
    \/ \E t \in RnTasks : RnCall(t) /\ UNCHANGED notStepVars
    \/ \E t \in RnTasks : RnHead(t) /\ UNCHANGED notStepVars
    \/ \E t \in RnTasks : RnCopy(t) /\ UNCHANGED notStepVars
    \/ \E t \in RnTasks : RnDelete(t) /\ UNCHANGED notStepVars
    \/ \E t \in RnTasks : RnCrash(t) /\ UNCHANGED notStepVars

-----------------------------------------------------------------------------
(* server/handlers_srv.py over a directory tree: one RPC after the other on
   the filesystem driver, the cache enabled and Redis answering *)

\* RPCs followed in one behaviour
MaxDirCalls == 3

\* a Redis key over the tree; `old` records history only: a Remove or Rename
\* of a directory above the path has succeeded since the entry was set
DcNoEntry == [present |-> FALSE, val |-> "none", old |-> FALSE]
DcEntry(val) == [present |-> TRUE, val |-> val, old |-> FALSE]

\* the last reading RPC: where its answer came from, whether it said the path
\* exists, and whether the entry that answered it was `old`
DcNoAnswer == [kind |-> "none", path |-> <<>>, src |-> "none", found |-> FALSE, old |-> FALSE]

DcAnswer(kind, p, src, found, old) ==
    [kind |-> kind, path |-> p, src |-> src, found |-> found, old |-> old]

DcInit ==
    dc = [tree |-> [n \in Nodes |-> IF n = <<"d">> THEN "dir"
                                     ELSE IF n = <<"d", "x">> THEN "f4" ELSE "none"],
          stat |-> [n \in Nodes |-> DcNoEntry],
          data |-> [n \in Nodes |-> DcNoEntry],
          last |-> DcNoAnswer,
          calls |-> 0]

\* the handler's `except Exception`: translate_exception and abort
DcAbort(kind, p) ==
    dc' = [dc EXCEPT !.last = DcAnswer(kind, p, "driver", FALSE, FALSE), !.calls = @ + 1]

\* Stat(p): get_stat, else driver.stat and set_stat
DcStat(p) ==
    /\ dc.calls < MaxDirCalls
    /\ IF dc.stat[p].present
       THEN dc' = [dc EXCEPT !.last = DcAnswer("Stat", p, "cache", TRUE, dc.stat[p].old),
                             !.calls = @ + 1]
       ELSE IF KindAt(dc.tree, p) = "none" \/ ThroughFile(dc.tree, p)
       THEN DcAbort("Stat", p)
       ELSE dc' = [dc EXCEPT !.stat[p] = DcEntry(dc.tree[p]),
                             !.last = DcAnswer("Stat", p, "driver", TRUE, FALSE),
                             !.calls = @ + 1]
    /\ UNCHANGED <<rn, ld, rb>>

\* Exists(p): get_stat, else driver.exists and, for a path that exists,
\* driver.stat and set_stat
DcExists(p) ==
    /\ dc.calls < MaxDirCalls
    /\ IF dc.stat[p].present
       THEN dc' = [dc EXCEPT !.last = DcAnswer("Exists", p, "cache", TRUE, dc.stat[p].old),
                             !.calls = @ + 1]
       ELSE IF KindAt(dc.tree, p) = "none" \/ ThroughFile(dc.tree, p)
       THEN dc' = [dc EXCEPT !.last = DcAnswer("Exists", p, "driver", FALSE, FALSE),
                             !.calls = @ + 1]
       ELSE dc' = [dc EXCEPT !.stat[p] = DcEntry(dc.tree[p]),
                             !.last = DcAnswer("Exists", p, "driver", TRUE, FALSE),
                             !.calls = @ + 1]
    /\ UNCHANGED <<rn, ld, rb>>

\* Read(p, 0, 0): get_file_data; else get_stat or driver.stat with set_stat,
\* then read_stream, and set_file_data when the stat allowed it
DcRead(p) ==
    /\ dc.calls < MaxDirCalls
    /\ IF dc.data[p].present
       THEN dc' = [dc EXCEPT !.last = DcAnswer("Read", p, "cache", TRUE, dc.data[p].old),
                             !.calls = @ + 1]
       ELSE LET absent == KindAt(dc.tree, p) = "none" \/ ThroughFile(dc.tree, p)
                stat2 == IF dc.stat[p].present \/ absent THEN dc.stat
                         ELSE [dc.stat EXCEPT ![p] = DcEntry(dc.tree[p])]
                fits == stat2[p].present /\ stat2[p].val # "dir"
            IN  IF absent \/ dc.tree[p] = "dir"
                THEN dc' = [dc EXCEPT !.stat = stat2,
                                      !.last = DcAnswer("Read", p, "driver", FALSE, FALSE),
                                      !.calls = @ + 1]
                ELSE dc' = [dc EXCEPT !.stat = stat2,
                                      !.data[p] = IF fits THEN DcEntry(dc.tree[p]) ELSE @,
                                      !.last = DcAnswer("Read", p, "driver", TRUE, FALSE),
                                      !.calls = @ + 1]
    /\ UNCHANGED <<rn, ld, rb>>

\* history: the entries below a directory that has just been removed or moved
DcOutdate(cache, p) ==
    [n \in Nodes |-> IF Under(n, p) /\ cache[n].present
                     THEN [cache[n] EXCEPT !.old = TRUE] ELSE cache[n]]

\* an invalidate that also deletes the keys of every path below rel_path
DcInvalidateBelow(cache, p) ==
    [n \in Nodes |-> IF n = p \/ Under(n, p) THEN DcNoEntry ELSE cache[n]]

\* cache_manager.invalidate(rel_path): DEL of the two keys of rel_path
DcInvalidate(cache, p) == [cache EXCEPT ![p] = DcNoEntry]

\* Remove(p, recursive): driver.remove, then invalidate(p)
DcRemove(p, recursive) ==
    /\ dc.calls < MaxDirCalls
    /\ LET result == FSDriver_remove_result(dc.tree, p, recursive)
           wasDir == KindAt(dc.tree, p) = "dir"
       IN  IF result.exc # "none" THEN DcAbort("Remove", p)
           ELSE dc' = [dc EXCEPT
                          !.tree = result.store,
                          !.stat = DcInvalidate(IF wasDir THEN DcOutdate(dc.stat, p)
                                                ELSE dc.stat, p),
                          !.data = DcInvalidate(IF wasDir THEN DcOutdate(dc.data, p)
                                                ELSE dc.data, p),
                          !.last = DcNoAnswer,
                          !.calls = @ + 1]
    /\ UNCHANGED <<rn, ld, rb>>

\* Rename(src, dst, overwrite): driver.rename, then invalidate(src) and
\* invalidate(dst)
DcRename(src, dst, overwrite) ==
    /\ dc.calls < MaxDirCalls
    /\ LET result == FSDriver_rename_result(dc.tree, src, dst, overwrite)
           wasDir == KindAt(dc.tree, src) = "dir"
           Swept(cache) == DcInvalidate(DcInvalidate(IF wasDir THEN DcOutdate(cache, src)
                                                     ELSE cache, src), dst)
       IN  IF result.exc # "none" THEN DcAbort("Rename", src)
           ELSE dc' = [dc EXCEPT !.tree = result.store,
                                 !.stat = Swept(dc.stat),
                                 !.data = Swept(dc.data),
                                 !.last = DcNoAnswer,
                                 !.calls = @ + 1]
    /\ UNCHANGED <<rn, ld, rb>>

DcNext ==
    \/ \E p \in Nodes : DcStat(p) /\ UNCHANGED notStepVars
    \/ \E p \in Nodes : DcExists(p) /\ UNCHANGED notStepVars
    \/ \E p \in Nodes : DcRead(p) /\ UNCHANGED notStepVars
    \/ \E p \in Nodes, recursive \in BOOLEAN : DcRemove(p, recursive) /\ UNCHANGED notStepVars
    \/ \E pair \in RenamePairs, overwrite \in BOOLEAN :
          DcRename(pair[1], pair[2], overwrite) /\ UNCHANGED notStepVars

-----------------------------------------------------------------------------
(* drivers/fs/fs_driver_drv.py: listdir, one stat at a time, while Remove
   RPCs take children away *)

\* the directory that is listed, and the names its children can have: "a",
\* "e", and "a " left by a Write to "d/a /z"
LdDir == SegD
LdNames == { SegA, SegE, SegA \o Str1(" ") }

\* the orders os.listdir can return a set of names in
Orders(names) ==
    { order \in [1 .. Cardinality(names) -> names] :
        \A i, j \in 1 .. Cardinality(names) : i # j => order[i] # order[j] }

\* os.path.join(rel_path, name)
os_path_join(rel_path, name) == rel_path \o Str1("/") \o name

\* a stat that takes child_rel as it is
StatPartsVerbatim(child_rel) == PathParts(child_rel)

\* the parts of the path self.stat(child_rel) looks at, below FS_ROOT:
\* _full_path passes child_rel through normalize_path
StatParts(child_rel) == PathParts(normalize_path(child_rel))

\* `names` history: the enumerated children that existed when they were
\* statted, in that order
LdInit ==
    \E children \in SUBSET LdNames :
        ld = [dir |-> children, pc |-> "idle", entries |-> <<>>, i |-> 0,
              results |-> <<>>, names |-> <<>>, exc |-> "none"]

\* entries = os.listdir(full_path)
LdListdir ==
    /\ ld.pc = "idle"
    /\ \E order \in Orders(ld.dir) :
          ld' = [ld EXCEPT !.pc = "loop", !.entries = order, !.i = 1]
    /\ UNCHANGED <<rn, rb, dc>>

\* one turn of `for name in entries:`: self.stat(child_rel) appends the
\* FileStat of what it found, FileNotFoundError is skipped
LdStat ==
    /\ ld.pc = "loop"
    /\ ld.i <= Len(ld.entries)
    /\ LET name == ld.entries[ld.i]
           child_rel == os_path_join(LdDir, name)
           parts == StatParts(child_rel)
           found == Len(parts) = 2 /\ parts[1] = LdDir /\ parts[2] \in ld.dir
       IN  ld' = [ld EXCEPT
                     !.i = @ + 1,
                     !.results = IF found
                                 THEN Append(@, [rel_path |-> child_rel, of |-> parts[2]])
                                 ELSE @,
                     !.names = IF name \in ld.dir THEN Append(@, name) ELSE @]
    /\ UNCHANGED <<rn, rb, dc>>

\* `return results`
LdReturn ==
    /\ ld.pc = "loop"
    /\ ld.i > Len(ld.entries)
    /\ ld' = [ld EXCEPT !.pc = "done"]
    /\ UNCHANGED <<rn, rb, dc>>

\* a Remove RPC takes a child away at any moment
LdRemoveChild ==
    /\ \E name \in ld.dir : ld' = [ld EXCEPT !.dir = @ \ { name }]
    /\ UNCHANGED <<rn, rb, dc>>

LdNext ==
    \/ LdListdir /\ UNCHANGED notStepVars
    \/ LdStat /\ UNCHANGED notStepVars
    \/ LdReturn /\ UNCHANGED notStepVars
    \/ LdRemoveChild /\ UNCHANGED notStepVars

-----------------------------------------------------------------------------
(* drivers/s3/s3_driver_drv.py: read_stream as the generator it is, with its
   consumer *)

\* `body = None`, the call not yet made
RbIdle ==
    [pc |-> "idle", ranged |-> FALSE, body |-> "none", closes |-> 0, chunks |-> 0,
     yielded |-> 0, consumer |-> "iterating", how |-> ""]

RbInit == rb = RbIdle

\* the ways the generator is left: the loop is exhausted, get_object or
\* iter_chunks raises, `return` on InvalidRange, CancelledError at an await,
\* GeneratorExit at the yield
ExitPaths == { "exhausted", "FileNotFoundError", "InvalidRange", "ClientError",
               "PayloadError", "CancelledError", "GeneratorExit" }

\* a close that is written after the loop instead of in a `finally:`
FinallyRunsAfterLoopOnly(how) == how = "exhausted"

\* `finally:` runs however the try block is left
FinallyRuns(how) == how \in ExitPaths

\* the generator is left: `finally: if body: body.close()`
RbExit(how) ==
    LET closing == FinallyRuns(how) /\ rb.body = "open"
    IN  rb' = [rb EXCEPT !.pc = "finished", !.how = how,
                         !.body = IF closing THEN "closed" ELSE @,
                         !.closes = IF closing THEN @ + 1 ELSE @]

\* read_stream(rel_path, offset, length) is called and iterated for the first
\* time, on an object of up to MaxReadChunks chunks; a Range header is sent
\* `if offset > 0 or length > 0`
RbCall ==
    /\ rb.pc = "idle"
    /\ \E n \in 0 .. MaxReadChunks, offset \in ReadArgs, length \in ReadArgs :
          rb' = [rb EXCEPT !.pc = "get", !.chunks = n,
                           !.ranged = offset > 0 \/ length > 0]
    /\ UNCHANGED <<rn, ld, dc>>

\* response = await client.get_object(**kwargs); body = response['Body']
RbGetObject ==
    /\ rb.pc = "get"
    /\ \/ rb' = [rb EXCEPT !.pc = "iter", !.body = "open"]
       \/ \E how \in { "FileNotFoundError", "ClientError", "CancelledError" } : RbExit(how)
       \/ rb.ranged /\ RbExit("InvalidRange")
    /\ UNCHANGED <<rn, ld, dc>>

\* `async for chunk in body.iter_chunks(...)`: the next chunk is yielded, the
\* body is exhausted, the read fails or the task is cancelled while it waits
RbNextChunk ==
    /\ rb.pc = "iter"
    /\ \/ IF rb.yielded < rb.chunks
          THEN rb' = [rb EXCEPT !.pc = "yielded", !.yielded = @ + 1]
          ELSE RbExit("exhausted")
       \/ \E how \in { "ClientError", "PayloadError", "CancelledError" } : RbExit(how)
    /\ UNCHANGED <<rn, ld, dc>>

\* the consumer asks for the next chunk
RbResume ==
    /\ rb.pc = "yielded"
    /\ rb.consumer = "iterating"
    /\ rb' = [rb EXCEPT !.pc = "iter"]
    /\ UNCHANGED <<rn, ld, dc>>

\* the consumer leaves its loop with the generator suspended at the yield:
\* Read's `break` or `return` on context.done(), or the end of its task
RbAbandon ==
    /\ rb.pc = "yielded"
    /\ rb.consumer = "iterating"
    /\ rb' = [rb EXCEPT !.consumer = "abandoned"]
    /\ UNCHANGED <<rn, ld, dc>>

\* the event loop's asynchronous-generator finalizer closes the abandoned
\* generator: GeneratorExit is raised at the yield
RbAclose ==
    /\ rb.pc = "yielded"
    /\ rb.consumer = "abandoned"
    /\ RbExit("GeneratorExit")
    /\ UNCHANGED <<rn, ld, dc>>

RbNext ==
    \/ RbCall /\ UNCHANGED notStepVars
    \/ RbGetObject /\ UNCHANGED notStepVars
    \/ RbNextChunk /\ UNCHANGED notStepVars
    \/ RbResume /\ UNCHANGED notStepVars
    \/ RbAbandon /\ UNCHANGED notStepVars
    \/ RbAclose /\ UNCHANGED notStepVars

-----------------------------------------------------------------------------
(* Claims about the multipart upload *)

\* the session of the call that is running or has just ended
WsSession == s3Uploads[wsUploadId]

\* C3: when the inbound sequence raised after the session was opened, then by
\* the time write_stream has ended abort_multipart_upload was called for that
\* upload id, complete_multipart_upload was not, and write_stream ended by
\* raising: the inbound exception itself whenever the abort call returned.
C3_InboundFailureAborts ==
    (wsPc = "done" /\ wsIn.raised /\ wsUploadId # 0) =>
        /\ WsSession.abortCalls = 1
        /\ WsSession.completeCalls = 0
        /\ wsOutcome \notin { "none", "returned" }
        /\ WsSession.state = "aborted" => wsOutcome = "InboundError"

\* C3 witness: the inbound sequence raised after a part was uploaded, and the
\* call has ended with the session aborted
C3_Witness ==
    /\ wsPc = "done"
    /\ wsIn.raised
    /\ wsUploadId # 0
    /\ Len(WsSession.stored) >= 1
    /\ WsSession.state = "aborted"
    /\ wsOutcome = "InboundError"

\* C4: whenever write_stream has ended, every session it opened is completed
\* or aborted - not left open, and not both completed and aborted.
C4_SessionClosedOnEveryExit ==
    (wsPc = "done" /\ wsUploadId # 0) =>
        /\ WsSession.state \in { "completed", "aborted" }
        /\ ~(WsSession.state = "completed" /\ WsSession.abortCalls > 0)

-----------------------------------------------------------------------------
(* utils/auth_ut.py *)

Token == "tok"
WrongToken == "bad"

\* str.lower() on the words that occur in call metadata
Lower(w) ==
    CASE w = "Authorization" -> "authorization"
      [] w = "Bearer" -> "bearer"
      [] w = "Basic" -> "basic"
      [] OTHER -> w

HeaderKeys == { "authorization", "Authorization", "x-request-id" }

\* a header value, as the words str.split() finds in it
HeaderValues ==
    { <<"Bearer", Token>>, <<"bearer", Token>>, <<"Bearer", WrongToken>>,
      <<"Basic", Token>>, <<"Bearer">>, <<"Bearer", Token, "x">>, <<>> }

Headers == { <<k, v>> : k \in HeaderKeys, v \in HeaderValues }

RECURSIVE MetaOfLen(_)
MetaOfLen(n) ==
    IF n = 0 THEN { <<>> }
    ELSE LET prev == MetaOfLen(n - 1)
         IN  prev \cup { Append(mt, h) : mt \in prev, h \in Headers }

\* every call metadata of at most MaxHeaders pairs
AllMetas == MetaOfLen(MaxHeaders)

ValidMeta == << <<"authorization", <<"Bearer", Token>> >> >>

\* the metadata used where the auth gate is not what is examined
FewMetas == { <<>>, ValidMeta }

NoHeader == [found |-> FALSE, value |-> <<>>]

RECURSIVE FirstAuthorization(_)
\* the loop over metadata: the first pair whose lowered key is "authorization"
FirstAuthorization(metadata) ==
    IF metadata = <<>> THEN NoHeader
    ELSE IF Lower(Head(metadata)[1]) = "authorization"
         THEN [found |-> TRUE, value |-> Head(metadata)[2]]
         ELSE FirstAuthorization(Tail(metadata))

validate_tokenNoCompare(metadata) ==
    IF secret = "" THEN TRUE
    ELSE LET auth_header == FirstAuthorization(metadata)
             parts == auth_header.value
         IN  /\ auth_header.found
             /\ parts # <<>>
             /\ Len(parts) = 2
             /\ Lower(parts[1]) = "bearer"
validate_token(metadata) ==
    IF secret = "" THEN TRUE
    ELSE LET auth_header == FirstAuthorization(metadata)
             parts == auth_header.value
         IN  IF ~auth_header.found \/ parts = <<>> THEN FALSE
             ELSE IF Len(parts) # 2 \/ Lower(parts[1]) # "bearer" THEN FALSE
             ELSE IF parts[2] # secret THEN FALSE
             ELSE TRUE

-----------------------------------------------------------------------------
(* utils/errors_ut.py *)

translate_exception(e) ==
    CASE e = "FileNotFoundError" -> "NOT_FOUND"
      [] e = "PermissionError" -> "PERMISSION_DENIED"
      [] e = "FileExistsError" -> "ALREADY_EXISTS"
      [] e = "OSError39" -> "FAILED_PRECONDITION"
      [] e = "IsADirectoryError" -> "FAILED_PRECONDITION"
      [] e = "NotADirectoryError" -> "FAILED_PRECONDITION"
      [] OTHER -> "INTERNAL"

\* what context.abort raises once the status is sent (grpc.aio)
AbortError == "AbortError"

-----------------------------------------------------------------------------
(* The store behind the driver, and the handlers' inputs *)

Slots == { 1, 2 }

HPaths == { "p", "q" }

\* redis_cfg.CACHE_MAX_FILE_SIZE, scaled to bytes of the model
CACHE_MAX_FILE_SIZE == 1

\* what a path holds: nothing, or a body told apart by its length only: empty,
\* within CACHE_MAX_FILE_SIZE, or longer
NoObject == "absent"

\* the body made of n data frames of one byte each
BodyOf(n) == IF n = 0 THEN "empty" ELSE IF n <= CACHE_MAX_FILE_SIZE THEN "small" ELSE "large"

\* len(data) > CACHE_MAX_FILE_SIZE, stat.size > CACHE_MAX_FILE_SIZE
OverCacheLimit(body) == body = "large"

MutatingKinds == { "Rename", "Remove", "Write" }

-----------------------------------------------------------------------------
(* utils/cache_ut.py: CacheManager over Redis *)

\* a Redis key's value; `pre`, `stale` and `exempt` record history only:
\*   pre    - the Write RPCs on this path that started after the entry was set
\*            and are still running
\*   stale  - "no", or how the Write ended that the entry outlived: with its
\*            delete executed ("afterInvalidate") or failed ("afterFailedInvalidate")
\*   exempt - the requests that were already running when that Write ended
NoEntry == [present |-> FALSE, val |-> NoObject, pre |-> {}, stale |-> "no", exempt |-> {}]
Entry(val) == [present |-> TRUE, val |-> val, pre |-> {}, stale |-> "no", exempt |-> {}]

\* how a call to Redis can go: it answers (TRUE) or raises (FALSE)
RedisAnswers == IF redisFlaky THEN BOOLEAN ELSE { TRUE }

\* what a CacheManager method lets out when Redis raises inside it
\* (redis_ok = FALSE): every Redis call sits in `try: ... except Exception`
CacheManagerRaisesUncaught(redis_ok) == IF cacheOn /\ ~redis_ok THEN "RedisError" ELSE "none"
CacheManagerRaises(redis_ok) == "none"

\* get_stat / get_file_data: None when the cache is off, the key is missing
\* or Redis raised (redis_ok = FALSE)
CacheGet(cache, rel_path, redis_ok) ==
    IF ~cacheOn \/ ~redis_ok THEN NoEntry ELSE cache[rel_path]

\* set_stat: a no-op when the cache is off or Redis raised
CacheSetStat(rel_path, stat, redis_ok) ==
    IF ~cacheOn \/ ~redis_ok THEN cacheStat
    ELSE [cacheStat EXCEPT ![rel_path] = Entry(stat)]

\* history: set_file_data returned at `if len(data) > CACHE_MAX_FILE_SIZE`
RefusesBody(data) == cacheOn /\ OverCacheLimit(data)

\* set_file_data without the test of len(data)
CacheSetDataAnySize(rel_path, data, redis_ok) ==
    IF ~cacheOn \/ ~redis_ok THEN cacheData
    ELSE [cacheData EXCEPT ![rel_path] = Entry(data)]

\* set_file_data: also a no-op for a body longer than CACHE_MAX_FILE_SIZE
CacheSetData(rel_path, data, redis_ok) ==
    IF ~cacheOn \/ OverCacheLimit(data) \/ ~redis_ok THEN cacheData
    ELSE [cacheData EXCEPT ![rel_path] = Entry(data)]

\* invalidate that forgets the data key
CacheInvalidateStatOnly(cache, kind, rel_path, redis_ok) ==
    IF ~cacheOn \/ ~redis_ok \/ rel_path \notin DOMAIN cache \/ kind # "stat" THEN cache
    ELSE [cache EXCEPT ![rel_path] = NoEntry]
\* invalidate: one DEL naming the stat key and the data key (cache is the
\* keyspace of `kind`); a no-op when the cache is off or Redis raised
CacheInvalidate(cache, kind, rel_path, redis_ok) ==
    IF ~cacheOn \/ ~redis_ok \/ rel_path \notin DOMAIN cache THEN cache
    ELSE [cache EXCEPT ![rel_path] = NoEntry]

\* history: request r starts; a Write that names rel_path in its header is
\* noted on the entries that exist for that path
NoteStart(cache, r, isWrite, rel_path) ==
    [q \in DOMAIN cache |->
        LET e == cache[q] IN
        [e EXCEPT !.exempt = @ \ {r},
                  !.pre = IF isWrite /\ q = rel_path /\ e.present THEN @ \cup {r} ELSE @ \ {r}]]

\* history: the Write in slot r ended with its ack; entries it found at its
\* start and that are still there have outlived it
NoteAck(cache, r, inv_ok, running) ==
    [q \in DOMAIN cache |->
        LET e == cache[q] IN
        IF r \notin e.pre THEN e
        ELSE [e EXCEPT !.pre = @ \ {r},
                       !.stale = IF inv_ok \/ @ = "afterInvalidate"
                                 THEN "afterInvalidate" ELSE "afterFailedInvalidate",
                       !.exempt = IF e.stale = "no" THEN running ELSE @]]

\* history: the request in slot r ended without an ack
NoteEnd(cache, r) == [q \in DOMAIN cache |-> [cache[q] EXCEPT !.pre = @ \ {r}]]

\* how request r sees entry e: "no" unless e outlived a Write that had ended
\* before r started
StaleFor(e, r) == IF e.present /\ r \notin e.exempt THEN e.stale ELSE "no"

-----------------------------------------------------------------------------
(* server/handlers_srv.py: the requests *)

\* does the metadata carry "Bearer <secret>" under an authorization key
CarriesBearer(metadata) ==
    \E i \in 1 .. Len(metadata) :
        /\ Lower(metadata[i][1]) = "authorization"
        /\ Len(metadata[i][2]) = 2
        /\ Lower(metadata[i][2][1]) = "bearer"
        /\ metadata[i][2][2] = secret

\* one RPC as the client sends it
Call(kind, path, path2, offset, first, frames) ==
    [kind |-> kind, path |-> path, path2 |-> path2, offset |-> offset,
     first |-> first, frames |-> frames]

\* every call; the single-path calls name "p", and "q" is the other end of a Rename
Calls ==
    { Call("Health", "p", "p", 0, "none", 0) }
    \cup { Call(k, "p", "p", 0, "none", 0) :
             k \in { "Stat", "Exists", "Listdir", "Mkdirs", "Remove", "GeneratePresignedUrl" } }
    \cup { Call("Rename", "p", "q", 0, "none", 0) }
    \cup { Call("Read", "p", "p", o, "none", 0) : o \in 0 .. 1 }
    \cup { Call("Write", "p", "p", 0, "none", 0) }
    \cup { Call("Write", "p", "p", 0, "header", n) : n \in 0 .. MaxFrames }
    \cup { Call("Write", "p", "p", 0, "data", 1) }

\* the calls that read or change what the cache holds
CacheCalls == { c \in Calls : c.kind \in { "Stat", "Read", "Write", "Rename", "Remove" } }

\* the calls of a client that only reads
ReaderCalls == { c \in Calls : c.kind \in { "Stat", "Read" } }

\* a request slot: the call, the handler's position and locals, and what the
\* handler has done so far; cacheFault records that a cache call in which Redis
\* raised gave a value back or changed a key; missing is "yes" for a Stat or
\* Read that began with its path absent from the store and no Rename, Remove
\* or Write in flight, for as long as the path stays absent, and "cached" once
\* such a request has written a cache entry; dataFound records that
\* get_file_data gave back the body the store holds at the path; overtaken
\* records that a Write on the request's path began while the request, a Stat
\* or a Read, was in flight
NewReq(c, metadata, pc) ==
    [kind |-> c.kind, path |-> c.path, path2 |-> c.path2, offset |-> c.offset,
     first |-> c.first, frames |-> c.frames,
     pc |-> pc, meta |-> metadata, bearer |-> CarriesBearer(metadata),
     rel_path |-> "", stat_obj |-> NoObject, full_data |-> NoObject, exc |-> "", bytes_count |-> 0,
     status |-> "", acks |-> <<>>, consumed |-> 0,
     calledDriver |-> FALSE, calledCache |-> FALSE, wsCalled |-> FALSE,
     wsReturned |-> FALSE, inval |-> {}, invOk |-> FALSE, ackInval |-> FALSE,
     cleared |-> FALSE, src |-> "none", staleHit |-> "no", sawAcked |-> {},
     cacheFault |-> FALSE, missing |-> "no", dataFound |-> FALSE, overtaken |-> FALSE,
     refused |-> FALSE]

IdleReq == NewReq(Call("Health", "p", "p", 0, "none", 0), <<>>, "idle")

Running(r) == reqs[r].pc \notin { "idle", "done" }

\* the Write RPCs that have ended with an acknowledgement
AckedWrites == { s \in Slots : reqs[s].pc = "done" /\ reqs[s].kind = "Write" /\ reqs[s].acks # <<>> }

\* the handler's first await after _check_auth
FirstPc(req) ==
    CASE req.kind = "Stat" -> "stat_get"
      [] req.kind = "Exists" -> "ex_get"
      [] req.kind = "Listdir" -> "ls_drv"
      [] req.kind = "Mkdirs" -> "mk_drv"
      [] req.kind = "Rename" -> "rn_drv"
      [] req.kind = "Remove" -> "rm_drv"
      [] req.kind = "Read" -> IF req.offset = 0 THEN "rd_data_get" ELSE "rd_stat_get"
      [] req.kind = "Write" -> "wr_first"
      [] OTHER -> "gu_drv"

\* the handler's coroutine is over and its locals are gone
Ended(req) == [req EXCEPT !.pc = "done", !.stat_obj = NoObject, !.full_data = NoObject]

\* errors_ut.abort / context.abort: the status is sent and the handler is left
Abort(req, code) == Ended([req EXCEPT !.status = code])

\* the handler returns its response
Return(req) == Ended([req EXCEPT !.status = "OK"])

\* the handler returns because the client is gone (context.done())
ReturnSilently(req) == Ended(req)

WriteAckFailedAsOk(e, bytes_written) ==
    [ok |-> TRUE, error |-> e, bytes_written |-> bytes_written]
\* WriteAck(ok=False, error=str(e), bytes_written=state.bytes_count)
WriteAckFailed(e, bytes_written) ==
    [ok |-> FALSE, error |-> e, bytes_written |-> bytes_written]

\* WriteAck(ok=True, bytes_written=state.bytes_count)
WriteAckOk(bytes_written) ==
    [ok |-> TRUE, error |-> "", bytes_written |-> bytes_written]

-----------------------------------------------------------------------------
(* The driver as the handlers see it: each call returns or raises *)

NoExc == ""

\* a backend failure that is none of the classified exceptions
BackendError == "ClientError"

DriverStat(rel_path) ==
    { [exc |-> BackendError, stat |-> NoObject] }
    \cup IF store[rel_path] = NoObject
         THEN { [exc |-> "FileNotFoundError", stat |-> NoObject] }
         ELSE { [exc |-> NoExc, stat |-> store[rel_path]] }

DriverExists(rel_path) ==
    { [exc |-> BackendError, exists |-> FALSE],
      [exc |-> NoExc, exists |-> store[rel_path] # NoObject] }

\* rename: the destination check, then os.rename, or copy_object followed by
\* delete_object, either of which can fail
DriverRename(src, dst) ==
    { [exc |-> BackendError, store |-> store] }
    \cup IF store[src] = NoObject
         THEN { [exc |-> "FileNotFoundError", store |-> store] }
         ELSE { [exc |-> NoExc,
                 store |-> [[store EXCEPT ![src] = NoObject] EXCEPT ![dst] = store[src]]],
                [exc |-> BackendError, store |-> [store EXCEPT ![dst] = store[src]]] }
    \cup IF store[dst] # NoObject
         THEN { [exc |-> "FileExistsError", store |-> store] }
         ELSE {}

\* remove: a missing target raises on the filesystem and returns on S3
DriverRemove(rel_path) ==
    { [exc |-> BackendError, store |-> store],
      [exc |-> NoExc, store |-> [store EXCEPT ![rel_path] = NoObject]] }
    \cup IF store[rel_path] = NoObject
         THEN { [exc |-> "FileNotFoundError", store |-> store] }
         ELSE {}

\* read_stream run to its end
DriverRead(rel_path) ==
    { [exc |-> BackendError, data |-> NoObject] }
    \cup IF store[rel_path] = NoObject
         THEN { [exc |-> "FileNotFoundError", data |-> NoObject] }
         ELSE { [exc |-> NoExc, data |-> store[rel_path]] }

\* write_stream: it returns with every data frame written; or it raises
\* before taking any frame (the collision check, append on S3); or it raises
\* after n frames, the object untouched (S3) or holding those n frames (fs)
DriverWrite(rel_path, frames) ==
    { [exc |-> NoExc, consumed |-> frames,
       store |-> [store EXCEPT ![rel_path] = BodyOf(frames)]] }
    \cup { [exc |-> "NotImplementedError", consumed |-> 0, store |-> store] }
    \cup ( IF store[rel_path] # NoObject
           THEN { [exc |-> "FileExistsError", consumed |-> 0, store |-> store] }
           ELSE {} )
    \cup UNION { { [exc |-> BackendError, consumed |-> n, store |-> st] :
                      st \in { store, [store EXCEPT ![rel_path] = BodyOf(n)] } } :
                  n \in 0 .. frames }

\* generate_presigned_url: a URL or None on S3; the filesystem driver has no
\* such method
DriverUrl == { NoExc, "AttributeError" }

-----------------------------------------------------------------------------
(* server/handlers_srv.py: the handlers, one action per await *)

\* the service as it starts, told whether Redis may fail later on
HStart(flaky) ==
    /\ secret \in { "", Token }
    /\ cacheOn \in BOOLEAN
    /\ redisFlaky = flaky
    /\ store = [p \in HPaths |-> IF p = "p" THEN "small" ELSE NoObject]
    /\ started = 0
    /\ cacheStat = [p \in HPaths |-> NoEntry]
    /\ cacheData = [p \in HPaths |-> NoEntry]
    /\ reqs = [r \in Slots |-> IdleReq]

HInit == HStart(TRUE)

\* the service with no request ever arriving
HIdle ==
    /\ secret = ""
    /\ cacheOn = FALSE
    /\ redisFlaky = FALSE
    /\ store = [p \in HPaths |-> NoObject]
    /\ started = 0
    /\ cacheStat = [p \in HPaths |-> NoEntry]
    /\ cacheData = [p \in HPaths |-> NoEntry]
    /\ reqs = [r \in Slots |-> IdleReq]

Set(r, req) == reqs' = [reqs EXCEPT ![r] = req]

\* the same after a driver call that left the store as `held`
SetSeen(r, req, held) ==
    reqs' = [s \in Slots |->
               LET q == IF s = r THEN req ELSE reqs[s]
               IN  [q EXCEPT !.missing = IF @ = "yes" /\ held[q.path] # NoObject
                                            THEN "no" ELSE @]]

\* missing, dataFound and overtaken are history that only the claims about a
\* Redis that never fails read: it is kept in those behaviours only
SteadyHistory == ~redisFlaky

\* does the RPC find its path absent, with every mutation of the store over
BeginsMissing(r, c) ==
    IF /\ SteadyHistory
       /\ c.kind \in { "Stat", "Read" }
       /\ store[c.path] = NoObject
       /\ \A s \in Slots \ { r } : ~(Running(s) /\ reqs[s].kind \in MutatingKinds)
    THEN "yes" ELSE "no"

\* a set call that wrote a key
WroteEntry(req, redis_ok) ==
    IF req.missing = "yes" /\ cacheOn /\ redis_ok THEN "cached" ELSE req.missing

\* does the RPC c begin a Write on the path of a Stat or Read in flight
Overtakes(c, req) ==
    /\ SteadyHistory
    /\ c.kind = "Write"
    /\ req.pc \notin { "idle", "done" }
    /\ req.kind \in { "Stat", "Read" }
    /\ req.path = c.path

\* slot r takes a new RPC
Begin(r, c, metadata) ==
    LET isWrite == c.kind = "Write" /\ c.first = "header"
        req == [NewReq(c, metadata, "called") EXCEPT !.sawAcked = AckedWrites \ {r},
                                                      !.missing = BeginsMissing(r, c)]
    IN  /\ reqs' = [s \in Slots |->
                      IF s = r THEN req
                      ELSE [reqs[s] EXCEPT !.overtaken = @ \/ Overtakes(c, reqs[s])]]
        /\ cacheStat' = NoteStart(cacheStat, r, isWrite, c.path)
        /\ cacheData' = NoteStart(cacheData, r, isWrite, c.path)

\* a client sends one RPC after the other, MaxRequests in all
Start(r, metas, calls) ==
    /\ ~Running(r)
    /\ started < MaxRequests
    /\ started' = started + 1
    /\ \E c \in calls, metadata \in metas : Begin(r, c, metadata)
    /\ UNCHANGED <<secret, cacheOn, redisFlaky, store>>

\* another client sends a single RPC at any moment
StartOnce(r, metas, calls) ==
    /\ reqs[r].pc = "idle"
    /\ \E c \in calls, metadata \in metas : Begin(r, c, metadata)
    /\ UNCHANGED <<secret, cacheOn, redisFlaky, started, store>>

\* an exception of the CacheManager reaches the handler's `except Exception`
CacheRaised(r, req) ==
    Set(r, Abort([req EXCEPT !.exc = "RedisError"], translate_exception("RedisError")))

\* a get in which Redis raised gave an entry back
GetFault(redis_ok, entry) == cacheOn /\ ~redis_ok /\ entry.present

\* a set or invalidate in which Redis raised changed a key
SetFault(redis_ok, before, after) == cacheOn /\ ~redis_ok /\ before # after

Health(r) ==
    /\ reqs[r].pc = "called"
    /\ reqs[r].kind = "Health"
    /\ Set(r, Return(reqs[r]))
    /\ UNCHANGED <<secret, cacheOn, redisFlaky, started, store, cacheStat, cacheData>>

_check_auth(r) ==
    /\ reqs[r].pc = "called"
    /\ reqs[r].kind # "Health"
    /\ IF validate_token(reqs[r].meta)
       THEN /\ Set(r, [reqs[r] EXCEPT !.pc = FirstPc(reqs[r]), !.meta = <<>>])
            /\ UNCHANGED <<cacheStat, cacheData>>
       ELSE /\ Set(r, Abort([reqs[r] EXCEPT !.meta = <<>>], "UNAUTHENTICATED"))
            /\ cacheStat' = NoteEnd(cacheStat, r)
            /\ cacheData' = NoteEnd(cacheData, r)
    /\ UNCHANGED <<secret, cacheOn, redisFlaky, started, store>>

\* Redis drops a key whose TTL has run out
Expire ==
    /\ \E p \in HPaths :
        \/ /\ cacheStat[p].present
           /\ cacheStat' = [cacheStat EXCEPT ![p] = NoEntry]
           /\ UNCHANGED cacheData
        \/ /\ cacheData[p].present
           /\ cacheData' = [cacheData EXCEPT ![p] = NoEntry]
           /\ UNCHANGED cacheStat
    /\ UNCHANGED <<secret, cacheOn, redisFlaky, started, store, reqs>>

(* Stat *)

StatGet(r) ==
    /\ reqs[r].pc = "stat_get"
    /\ \E redis_ok \in RedisAnswers :
        LET cached_stat == CacheGet(cacheStat, reqs[r].path, redis_ok)
            req == [reqs[r] EXCEPT !.calledCache = TRUE,
                                   !.cacheFault = @ \/ GetFault(redis_ok, cached_stat)]
        IN  IF CacheManagerRaises(redis_ok) # "none" THEN CacheRaised(r, req)
            ELSE IF cached_stat.present
            THEN Set(r, Return([req EXCEPT !.stat_obj = cached_stat.val, !.src = "cache",
                                           !.staleHit = StaleFor(cached_stat, r)]))
            ELSE Set(r, [req EXCEPT !.pc = "stat_drv"])
    /\ UNCHANGED <<secret, cacheOn, redisFlaky, started, store, cacheStat, cacheData>>

StatDrv(r) ==
    /\ reqs[r].pc = "stat_drv"
    /\ \E o \in DriverStat(reqs[r].path) :
        LET req == [reqs[r] EXCEPT !.calledDriver = TRUE]
        IN  IF o.exc = NoExc
            THEN Set(r, [req EXCEPT !.stat_obj = o.stat, !.pc = "stat_set"])
            ELSE Set(r, Abort([req EXCEPT !.exc = o.exc], translate_exception(o.exc)))
    /\ UNCHANGED <<secret, cacheOn, redisFlaky, started, store, cacheStat, cacheData>>

StatSet(r) ==
    /\ reqs[r].pc = "stat_set"
    /\ \E redis_ok \in RedisAnswers :
        LET stat2 == CacheSetStat(reqs[r].path, reqs[r].stat_obj, redis_ok)
            req == [reqs[r] EXCEPT !.calledCache = TRUE,
                                   !.cacheFault = @ \/ SetFault(redis_ok, cacheStat, stat2),
                                   !.missing = WroteEntry(reqs[r], redis_ok)]
        IN  /\ cacheStat' = stat2
            /\ IF CacheManagerRaises(redis_ok) # "none" THEN CacheRaised(r, req)
               ELSE Set(r, Return([req EXCEPT !.src = "driver"]))
    /\ UNCHANGED <<secret, cacheOn, redisFlaky, started, store, cacheData>>

(* Exists *)

ExistsGet(r) ==
    /\ reqs[r].pc = "ex_get"
    /\ \E redis_ok \in RedisAnswers :
        LET cached_stat == CacheGet(cacheStat, reqs[r].path, redis_ok)
            req == [reqs[r] EXCEPT !.calledCache = TRUE,
                                   !.cacheFault = @ \/ GetFault(redis_ok, cached_stat)]
        IN  IF CacheManagerRaises(redis_ok) # "none" THEN CacheRaised(r, req)
            ELSE IF cached_stat.present
            THEN Set(r, Return([req EXCEPT !.stat_obj = cached_stat.val, !.src = "cache"]))
            ELSE Set(r, [req EXCEPT !.pc = "ex_drv"])
    /\ UNCHANGED <<secret, cacheOn, redisFlaky, started, store, cacheStat, cacheData>>

ExistsDrv(r) ==
    /\ reqs[r].pc = "ex_drv"
    /\ \E o \in DriverExists(reqs[r].path) :
        LET req == [reqs[r] EXCEPT !.calledDriver = TRUE]
        IN  IF o.exc # NoExc
            THEN Set(r, Abort([req EXCEPT !.exc = o.exc], translate_exception(o.exc)))
            ELSE IF o.exists
            THEN Set(r, [req EXCEPT !.pc = "ex_stat"])
            ELSE Set(r, Return([req EXCEPT !.src = "driver"]))
    /\ UNCHANGED <<secret, cacheOn, redisFlaky, started, store, cacheStat, cacheData>>

\* the stat inside `try: ... except: pass`
ExistsStat(r) ==
    /\ reqs[r].pc = "ex_stat"
    /\ \E o \in DriverStat(reqs[r].path) :
        IF o.exc = NoExc
        THEN Set(r, [reqs[r] EXCEPT !.stat_obj = o.stat, !.pc = "ex_set"])
        ELSE Set(r, Return([reqs[r] EXCEPT !.src = "driver"]))
    /\ UNCHANGED <<secret, cacheOn, redisFlaky, started, store, cacheStat, cacheData>>

\* set_stat inside the same `try: ... except: pass`
ExistsSet(r) ==
    /\ reqs[r].pc = "ex_set"
    /\ \E redis_ok \in RedisAnswers :
        LET stat2 == CacheSetStat(reqs[r].path, reqs[r].stat_obj, redis_ok)
        IN  /\ cacheStat' = stat2
            /\ Set(r, Return([reqs[r] EXCEPT !.src = "driver",
                                 !.cacheFault = @ \/ SetFault(redis_ok, cacheStat, stat2)]))
    /\ UNCHANGED <<secret, cacheOn, redisFlaky, started, store, cacheData>>

(* Listdir, Mkdirs, GeneratePresignedUrl *)

Listdir(r) ==
    /\ reqs[r].pc = "ls_drv"
    /\ \E e \in { NoExc, "FileNotFoundError", "NotADirectoryError", BackendError } :
        LET req == [reqs[r] EXCEPT !.calledDriver = TRUE]
        IN  IF e = NoExc THEN Set(r, Return(req))
            ELSE Set(r, Abort([req EXCEPT !.exc = e], translate_exception(e)))
    /\ UNCHANGED <<secret, cacheOn, redisFlaky, started, store, cacheStat, cacheData>>

Mkdirs(r) ==
    /\ reqs[r].pc = "mk_drv"
    /\ \E e \in { NoExc, "FileExistsError", BackendError } :
        LET req == [reqs[r] EXCEPT !.calledDriver = TRUE]
        IN  IF e = NoExc THEN Set(r, Return(req))
            ELSE Set(r, Abort([req EXCEPT !.exc = e], translate_exception(e)))
    /\ UNCHANGED <<secret, cacheOn, redisFlaky, started, store, cacheStat, cacheData>>

GeneratePresignedUrl(r) ==
    /\ reqs[r].pc = "gu_drv"
    /\ \E e \in DriverUrl :
        LET req == [reqs[r] EXCEPT !.calledDriver = TRUE]
        IN  IF e = NoExc THEN Set(r, Return(req))
            ELSE Set(r, Abort([req EXCEPT !.exc = e], translate_exception(e)))
    /\ UNCHANGED <<secret, cacheOn, redisFlaky, started, store, cacheStat, cacheData>>

\* cache_manager.invalidate(rel_path) called by the request in slot r; an
\* exception of it would leave Rename and Remove through `except Exception`,
\* and Write through the invalidate of its except clause
Invalidate(r, rel_path, redis_ok, pc) ==
    LET stat2 == CacheInvalidate(cacheStat, "stat", rel_path, redis_ok)
        data2 == CacheInvalidate(cacheData, "data", rel_path, redis_ok)
        found == { c[rel_path] : c \in { cacheStat, cacheData } }
        left == { c[rel_path] : c \in { stat2, data2 } }
        gone == rel_path \in HPaths
                /\ \E e \in found : e.present /\ r \in e.pre
                /\ \A f \in left : ~f.present
        req == [reqs[r] EXCEPT !.calledCache = TRUE,
                               !.inval = @ \cup { rel_path },
                               !.invOk = cacheOn /\ redis_ok,
                               !.cleared = @ \/ gone,
                               !.cacheFault = @ \/ SetFault(redis_ok, <<cacheStat, cacheData>>,
                                                            <<stat2, data2>>)]
    IN  /\ cacheStat' = stat2
        /\ cacheData' = data2
        /\ IF CacheManagerRaises(redis_ok) = "none" THEN Set(r, [req EXCEPT !.pc = pc])
           ELSE IF req.kind = "Write"
           THEN Set(r, Ended([req EXCEPT !.exc = "RedisError", !.status = "UNKNOWN"]))
           ELSE CacheRaised(r, req)

(* Rename *)

RenameDrv(r) ==
    /\ reqs[r].pc = "rn_drv"
    /\ \E o \in DriverRename(reqs[r].path, reqs[r].path2) :
        LET req == [reqs[r] EXCEPT !.calledDriver = TRUE]
        IN  /\ store' = o.store
            /\ IF o.exc = NoExc
               THEN SetSeen(r, [req EXCEPT !.pc = "rn_inv_src"], o.store)
               ELSE SetSeen(r, Abort([req EXCEPT !.exc = o.exc], translate_exception(o.exc)),
                            o.store)
    /\ UNCHANGED <<secret, cacheOn, redisFlaky, started, cacheStat, cacheData>>

RenameInvalidateSrc(r) ==
    /\ reqs[r].pc = "rn_inv_src"
    /\ \E redis_ok \in RedisAnswers : Invalidate(r, reqs[r].path, redis_ok, "rn_inv_dst")
    /\ UNCHANGED <<secret, cacheOn, redisFlaky, started, store>>

RenameInvalidateDst(r) ==
    /\ reqs[r].pc = "rn_inv_dst"
    /\ \E redis_ok \in RedisAnswers : Invalidate(r, reqs[r].path2, redis_ok, "rn_ret")
    /\ UNCHANGED <<secret, cacheOn, redisFlaky, started, store>>

RenameReturn(r) ==
    /\ reqs[r].pc = "rn_ret"
    /\ Set(r, Return(reqs[r]))
    /\ UNCHANGED <<secret, cacheOn, redisFlaky, started, store, cacheStat, cacheData>>

(* Remove *)

RemoveDrv(r) ==
    /\ reqs[r].pc = "rm_drv"
    /\ \E o \in DriverRemove(reqs[r].path) :
        LET req == [reqs[r] EXCEPT !.calledDriver = TRUE]
        IN  /\ store' = o.store
            /\ IF o.exc = NoExc
               THEN SetSeen(r, [req EXCEPT !.pc = "rm_inv"], o.store)
               ELSE SetSeen(r, Abort([req EXCEPT !.exc = o.exc], translate_exception(o.exc)),
                            o.store)
    /\ UNCHANGED <<secret, cacheOn, redisFlaky, started, cacheStat, cacheData>>

RemoveInvalidate(r) ==
    /\ reqs[r].pc = "rm_inv"
    /\ \E redis_ok \in RedisAnswers : Invalidate(r, reqs[r].path, redis_ok, "rm_ret")
    /\ UNCHANGED <<secret, cacheOn, redisFlaky, started, store>>

RemoveReturn(r) ==
    /\ reqs[r].pc = "rm_ret"
    /\ Set(r, Return(reqs[r]))
    /\ UNCHANGED <<secret, cacheOn, redisFlaky, started, store, cacheStat, cacheData>>

(* Read *)

\* stat_obj and stat_obj.size <= CACHE_MAX_FILE_SIZE and request.offset == 0
should_cache_body(stat_obj, offset) ==
    stat_obj # NoObject /\ ~OverCacheLimit(stat_obj) /\ offset = 0

ReadPlan(req) ==
    IF should_cache_body(req.stat_obj, req.offset) THEN "rd_fill" ELSE "rd_direct"

\* get_file_data; an empty body is falsy and counts as a miss
ReadDataGet(r) ==
    /\ reqs[r].pc = "rd_data_get"
    /\ \E redis_ok \in RedisAnswers :
        LET cached_data == CacheGet(cacheData, reqs[r].path, redis_ok)
            req == [reqs[r] EXCEPT !.calledCache = TRUE,
                                   !.cacheFault = @ \/ GetFault(redis_ok, cached_data),
                                   !.dataFound = SteadyHistory /\ cached_data.present
                                                 /\ cached_data.val = store[reqs[r].path]]
        IN  IF CacheManagerRaises(redis_ok) # "none" THEN CacheRaised(r, req)
            ELSE IF cached_data.present /\ cached_data.val # "empty"
            THEN Set(r, Return([req EXCEPT !.src = "cache",
                                           !.staleHit = StaleFor(cached_data, r)]))
            ELSE Set(r, [req EXCEPT !.pc = "rd_stat_get"])
    /\ UNCHANGED <<secret, cacheOn, redisFlaky, started, store, cacheStat, cacheData>>

ReadStatGet(r) ==
    /\ reqs[r].pc = "rd_stat_get"
    /\ \E redis_ok \in RedisAnswers :
        LET cached_stat == CacheGet(cacheStat, reqs[r].path, redis_ok)
            req == [reqs[r] EXCEPT !.calledCache = TRUE,
                                   !.cacheFault = @ \/ GetFault(redis_ok, cached_stat)]
        IN  IF CacheManagerRaises(redis_ok) # "none" THEN CacheRaised(r, req)
            ELSE IF cached_stat.present
            THEN Set(r, [req EXCEPT !.stat_obj = cached_stat.val,
                                    !.pc = ReadPlan([req EXCEPT !.stat_obj = cached_stat.val])])
            ELSE Set(r, [req EXCEPT !.pc = "rd_stat_drv"])
    /\ UNCHANGED <<secret, cacheOn, redisFlaky, started, store, cacheStat, cacheData>>

\* the stat inside `try: ... except: pass`
ReadStatDrv(r) ==
    /\ reqs[r].pc = "rd_stat_drv"
    /\ \E o \in DriverStat(reqs[r].path) :
        LET req == [reqs[r] EXCEPT !.calledDriver = TRUE]
        IN  IF o.exc = NoExc
            THEN Set(r, [req EXCEPT !.stat_obj = o.stat, !.pc = "rd_stat_set"])
            ELSE Set(r, [req EXCEPT !.pc = ReadPlan(req)])
    /\ UNCHANGED <<secret, cacheOn, redisFlaky, started, store, cacheStat, cacheData>>

\* set_stat inside the same `try: ... except: pass`
ReadStatSet(r) ==
    /\ reqs[r].pc = "rd_stat_set"
    /\ \E redis_ok \in RedisAnswers :
        LET stat2 == CacheSetStat(reqs[r].path, reqs[r].stat_obj, redis_ok)
        IN  /\ cacheStat' = stat2
            /\ Set(r, [reqs[r] EXCEPT !.pc = ReadPlan(reqs[r]),
                          !.cacheFault = @ \/ SetFault(redis_ok, cacheStat, stat2),
                          !.missing = WroteEntry(reqs[r], redis_ok)])
    /\ UNCHANGED <<secret, cacheOn, redisFlaky, started, store, cacheData>>

\* the whole body is read for the cache; the client may be gone meanwhile
ReadFill(r) ==
    /\ reqs[r].pc = "rd_fill"
    /\ \E o \in DriverRead(reqs[r].path), done \in BOOLEAN :
        LET req == [reqs[r] EXCEPT !.calledDriver = TRUE]
        IN  IF done THEN Set(r, ReturnSilently(req))
            ELSE IF o.exc = NoExc
            THEN Set(r, [req EXCEPT !.full_data = o.data, !.pc = "rd_data_set"])
            ELSE Set(r, Abort([req EXCEPT !.exc = o.exc], translate_exception(o.exc)))
    /\ UNCHANGED <<secret, cacheOn, redisFlaky, started, store, cacheStat, cacheData>>

ReadDataSet(r) ==
    /\ reqs[r].pc = "rd_data_set"
    /\ \E redis_ok \in RedisAnswers :
        LET data2 == CacheSetData(reqs[r].path, reqs[r].full_data, redis_ok)
            req == [reqs[r] EXCEPT !.calledCache = TRUE,
                                   !.cacheFault = @ \/ SetFault(redis_ok, cacheData, data2),
                                   !.missing = WroteEntry(reqs[r], redis_ok),
                                   !.refused = RefusesBody(reqs[r].full_data)]
        IN  /\ cacheData' = data2
            /\ IF CacheManagerRaises(redis_ok) # "none" THEN CacheRaised(r, req)
               ELSE Set(r, Return([req EXCEPT !.src = "driver"]))
    /\ UNCHANGED <<secret, cacheOn, redisFlaky, started, store, cacheStat>>

ReadDirect(r) ==
    /\ reqs[r].pc = "rd_direct"
    /\ \E o \in DriverRead(reqs[r].path), done \in BOOLEAN :
        LET req == [reqs[r] EXCEPT !.calledDriver = TRUE]
        IN  IF done THEN Set(r, ReturnSilently(req))
            ELSE IF o.exc = NoExc
            THEN Set(r, Return([req EXCEPT !.src = "driver"]))
            ELSE Set(r, Abort([req EXCEPT !.exc = o.exc], translate_exception(o.exc)))
    /\ UNCHANGED <<secret, cacheOn, redisFlaky, started, store, cacheStat, cacheData>>

(* Write *)

\* the first frame is awaited and checked; abort raises AbortError inside
\* the outer try, whose `except Exception` clause takes it
WriteFirst(r) ==
    /\ reqs[r].pc = "wr_first"
    /\ LET req == [reqs[r] EXCEPT !.rel_path = "unknown"]
       IN  CASE req.first = "none" ->
                  Set(r, [req EXCEPT !.status = "INVALID_ARGUMENT", !.exc = AbortError,
                                     !.pc = "wr_fail_inv"])
             [] req.first = "data" ->
                  Set(r, [req EXCEPT !.consumed = 1,
                                     !.status = "INVALID_ARGUMENT", !.exc = AbortError,
                                     !.pc = "wr_fail_inv"])
             [] OTHER ->
                  Set(r, [req EXCEPT !.consumed = 1, !.rel_path = req.path,
                                     !.pc = "wr_drv"])
    /\ UNCHANGED <<secret, cacheOn, redisFlaky, started, store, cacheStat, cacheData>>

WriteDrv(r) ==
    /\ reqs[r].pc = "wr_drv"
    /\ \E o \in DriverWrite(reqs[r].rel_path, reqs[r].frames) :
        LET req == [reqs[r] EXCEPT !.calledDriver = TRUE, !.wsCalled = TRUE,
                                   !.consumed = @ + o.consumed,
                                   !.bytes_count = o.consumed]
        IN  /\ store' = o.store
            /\ IF o.exc = NoExc
               THEN SetSeen(r, [req EXCEPT !.wsReturned = TRUE, !.pc = "wr_ok_inv"], o.store)
               ELSE SetSeen(r, [req EXCEPT !.exc = o.exc, !.pc = "wr_fail_inv"], o.store)
    /\ UNCHANGED <<secret, cacheOn, redisFlaky, started, cacheStat, cacheData>>

WriteOkInvalidate(r) ==
    /\ reqs[r].pc = "wr_ok_inv"
    /\ \E redis_ok \in RedisAnswers : Invalidate(r, reqs[r].rel_path, redis_ok, "wr_ok_ack")
    /\ UNCHANGED <<secret, cacheOn, redisFlaky, started, store>>

WriteFailInvalidate(r) ==
    /\ reqs[r].pc = "wr_fail_inv"
    /\ \E redis_ok \in RedisAnswers : Invalidate(r, reqs[r].rel_path, redis_ok, "wr_fail_ack")
    /\ UNCHANGED <<secret, cacheOn, redisFlaky, started, store>>

\* the acknowledgement is yielded and the generator ends
Ack(r, ack) ==
    LET req == reqs[r]
        others == { s \in Slots \ {r} : Running(s) }
    IN  /\ Set(r, [req EXCEPT !.acks = Append(@, ack),
                              !.ackInval = req.rel_path \in req.inval,
                              !.status = IF @ = "" THEN "OK" ELSE @,
                              !.pc = "done"])
        /\ cacheStat' = NoteAck(cacheStat, r, req.invOk, others)
        /\ cacheData' = NoteAck(cacheData, r, req.invOk, others)

WriteOkAck(r) ==
    /\ reqs[r].pc = "wr_ok_ack"
    /\ Ack(r, WriteAckOk(reqs[r].bytes_count))
    /\ UNCHANGED <<secret, cacheOn, redisFlaky, started, store>>

WriteFailAck(r) ==
    /\ reqs[r].pc = "wr_fail_ack"
    /\ Ack(r, WriteAckFailed(reqs[r].exc, reqs[r].bytes_count))
    /\ UNCHANGED <<secret, cacheOn, redisFlaky, started, store>>

-----------------------------------------------------------------------------
(* The service: requests arrive in any order and interleave at every await *)

\* one client reads and changes objects while a second one reads once
HNext ==
    \/ Start(1, { ValidMeta }, CacheCalls) /\ UNCHANGED notHVars
    \/ StartOnce(2, { ValidMeta }, ReaderCalls) /\ UNCHANGED notHVars
    \/ (\E r \in Slots : _check_auth(r)) /\ UNCHANGED notHVars
    \/ Expire /\ UNCHANGED notHVars
    \/ (\E r \in Slots : StatGet(r)) /\ UNCHANGED notHVars
    \/ (\E r \in Slots : StatDrv(r)) /\ UNCHANGED notHVars
    \/ (\E r \in Slots : StatSet(r)) /\ UNCHANGED notHVars
    \/ (\E r \in Slots : RenameDrv(r)) /\ UNCHANGED notHVars
    \/ (\E r \in Slots : RenameInvalidateSrc(r)) /\ UNCHANGED notHVars
    \/ (\E r \in Slots : RenameInvalidateDst(r)) /\ UNCHANGED notHVars
    \/ (\E r \in Slots : RenameReturn(r)) /\ UNCHANGED notHVars
    \/ (\E r \in Slots : RemoveDrv(r)) /\ UNCHANGED notHVars
    \/ (\E r \in Slots : RemoveInvalidate(r)) /\ UNCHANGED notHVars
    \/ (\E r \in Slots : RemoveReturn(r)) /\ UNCHANGED notHVars
    \/ (\E r \in Slots : ReadDataGet(r)) /\ UNCHANGED notHVars
    \/ (\E r \in Slots : ReadStatGet(r)) /\ UNCHANGED notHVars
    \/ (\E r \in Slots : ReadStatDrv(r)) /\ UNCHANGED notHVars
    \/ (\E r \in Slots : ReadStatSet(r)) /\ UNCHANGED notHVars
    \/ (\E r \in Slots : ReadFill(r)) /\ UNCHANGED notHVars
    \/ (\E r \in Slots : ReadDataSet(r)) /\ UNCHANGED notHVars
    \/ (\E r \in Slots : ReadDirect(r)) /\ UNCHANGED notHVars
    \/ (\E r \in Slots : WriteFirst(r)) /\ UNCHANGED notHVars
    \/ (\E r \in Slots : WriteDrv(r)) /\ UNCHANGED notHVars
    \/ (\E r \in Slots : WriteOkInvalidate(r)) /\ UNCHANGED notHVars
    \/ (\E r \in Slots : WriteFailInvalidate(r)) /\ UNCHANGED notHVars
    \/ (\E r \in Slots : WriteOkAck(r)) /\ UNCHANGED notHVars
    \/ (\E r \in Slots : WriteFailAck(r)) /\ UNCHANGED notHVars

\* one request at a time, of any kind; the first carries any metadata, the
\* later ones the usual credentials
AuthNext ==
    \/ Start(1, IF started = 0 THEN AllMetas ELSE FewMetas, Calls) /\ UNCHANGED notHVars
    \/ Health(1) /\ UNCHANGED notHVars
    \/ _check_auth(1) /\ UNCHANGED notHVars
    \/ Expire /\ UNCHANGED notHVars
    \/ StatGet(1) /\ UNCHANGED notHVars
    \/ StatDrv(1) /\ UNCHANGED notHVars
    \/ StatSet(1) /\ UNCHANGED notHVars
    \/ ExistsGet(1) /\ UNCHANGED notHVars
    \/ ExistsDrv(1) /\ UNCHANGED notHVars
    \/ ExistsStat(1) /\ UNCHANGED notHVars
    \/ ExistsSet(1) /\ UNCHANGED notHVars
    \/ Listdir(1) /\ UNCHANGED notHVars
    \/ Mkdirs(1) /\ UNCHANGED notHVars
    \/ GeneratePresignedUrl(1) /\ UNCHANGED notHVars
    \/ RenameDrv(1) /\ UNCHANGED notHVars
    \/ RenameInvalidateSrc(1) /\ UNCHANGED notHVars
    \/ RenameInvalidateDst(1) /\ UNCHANGED notHVars
    \/ RenameReturn(1) /\ UNCHANGED notHVars
    \/ RemoveDrv(1) /\ UNCHANGED notHVars
    \/ RemoveInvalidate(1) /\ UNCHANGED notHVars
    \/ RemoveReturn(1) /\ UNCHANGED notHVars
    \/ ReadDataGet(1) /\ UNCHANGED notHVars
    \/ ReadStatGet(1) /\ UNCHANGED notHVars
    \/ ReadStatDrv(1) /\ UNCHANGED notHVars
    \/ ReadStatSet(1) /\ UNCHANGED notHVars
    \/ ReadFill(1) /\ UNCHANGED notHVars
    \/ ReadDataSet(1) /\ UNCHANGED notHVars
    \/ ReadDirect(1) /\ UNCHANGED notHVars
    \/ WriteFirst(1) /\ UNCHANGED notHVars
    \/ WriteDrv(1) /\ UNCHANGED notHVars
    \/ WriteOkInvalidate(1) /\ UNCHANGED notHVars
    \/ WriteFailInvalidate(1) /\ UNCHANGED notHVars
    \/ WriteOkAck(1) /\ UNCHANGED notHVars
    \/ WriteFailAck(1) /\ UNCHANGED notHVars

-----------------------------------------------------------------------------
(* server/handlers_srv.py: the two streaming loops of Read, chunk by chunk *)

\* `if context.done():` at the top of both loop bodies
ObservesDoneNever(done) == FALSE
ObservesDone(done) == done

\* one Read past its cache and stat lookups: the stream holds `stream` chunks,
\* `taken` of them have been drawn, `buffered` are in full_data, `yielded`
\* counts the ReadChunk messages handed to gRPC, `cached` holds the
\* number of chunks of each body given to set_file_data, `ended` is "" while
\* the handler runs, then "return", the status it aborted with, or
\* "CancelledError"; sawDone and late record history: a check found
\* context.done() true, and the chunks that were buffered or yielded although
\* context.done() was already true; `marked` says that rel_path contains
\* the text "Stream removed" or "ExecuteBatchError", `raised` is history:
\* the exception that came out of the loop
NoError == [origin |-> "none", cls |-> "", mentions |-> FALSE]

NewRead(stream, branch) ==
    [stream |-> stream, branch |-> branch, pc |-> "loop", taken |-> 0, buffered |-> 0,
     yielded |-> 0, cached |-> {}, ended |-> "", sawDone |-> FALSE, late |-> 0,
     marked |-> FALSE, raised |-> NoError]

RdInit ==
    /\ \E stream \in 0 .. MaxReadChunks, branch \in { "fill", "direct" }, marked \in BOOLEAN :
          rd = [NewRead(stream, branch) EXCEPT !.marked = marked]
    /\ ctxDone = FALSE

\* the loops while another part of the system is followed
RdIdle ==
    /\ rd = [NewRead(0, "direct") EXCEPT !.pc = "done", !.ended = "return"]
    /\ ctxDone = FALSE

\* the client cancels the RPC or its connection goes away
ClientGone ==
    /\ ~ctxDone
    /\ rd.ended = ""
    /\ ctxDone' = TRUE
    /\ UNCHANGED rd

\* `async for chunk in stream:` of the cache fill hands over the next chunk:
\* the check, then `return` or `full_data.extend(chunk)`
RdFillChunk ==
    /\ rd.pc = "loop" /\ rd.branch = "fill"
    /\ rd.taken < rd.stream
    /\ IF ObservesDone(ctxDone)
       THEN rd' = [rd EXCEPT !.taken = @ + 1, !.sawDone = TRUE, !.pc = "done",
                             !.ended = "return"]
       ELSE rd' = [rd EXCEPT !.taken = @ + 1, !.buffered = @ + 1,
                             !.late = IF ctxDone THEN @ + 1 ELSE @]
    /\ UNCHANGED ctxDone

\* the stream of the cache fill is exhausted
RdFillEnd ==
    /\ rd.pc = "loop" /\ rd.branch = "fill"
    /\ rd.taken = rd.stream
    /\ rd' = [rd EXCEPT !.pc = "set"]
    /\ UNCHANGED ctxDone

\* `await cache_manager.set_file_data(rel_path, bytes(full_data))`
RdSetFileData ==
    /\ rd.pc = "set"
    /\ rd' = [rd EXCEPT !.cached = { rd.buffered }, !.pc = "final"]
    /\ UNCHANGED ctxDone

\* `yield ReadChunk(data=bytes(final_data))`, after which the handler returns
RdFinalYield ==
    /\ rd.pc = "final"
    /\ rd' = [rd EXCEPT !.yielded = @ + 1, !.ended = "return", !.pc = "done"]
    /\ UNCHANGED ctxDone

\* `async for chunk_bytes in stream:` of the direct branch hands over the next
\* chunk: the check, then `break` or `yield ReadChunk(data=chunk_bytes)`
RdDirectChunk ==
    /\ rd.pc = "loop" /\ rd.branch = "direct"
    /\ rd.taken < rd.stream
    /\ IF ObservesDone(ctxDone)
       THEN rd' = [rd EXCEPT !.taken = @ + 1, !.sawDone = TRUE, !.pc = "done",
                             !.ended = "return"]
       ELSE rd' = [rd EXCEPT !.taken = @ + 1, !.yielded = @ + 1,
                             !.late = IF ctxDone THEN @ + 1 ELSE @]
    /\ UNCHANGED ctxDone

\* the stream of the direct branch is exhausted: the handler returns
RdDirectEnd ==
    /\ rd.pc = "loop" /\ rd.branch = "direct"
    /\ rd.taken = rd.stream
    /\ rd' = [rd EXCEPT !.ended = "return", !.pc = "done"]
    /\ UNCHANGED ctxDone

\* what the loop can raise, `mentions` saying that str(e) contains "Stream
\* removed" or "ExecuteBatchError": from the driver a backend failure at any
\* chunk and FileNotFoundError at the first, whose message carries the path
\* (`S3 key not found: {key}`, the filename of open()); from gRPC its
\* ExecuteBatchError and an error whose text is "Stream removed"
StreamErrors(read) ==
    { [origin |-> "driver", cls |-> BackendError, mentions |-> FALSE],
      [origin |-> "transport", cls |-> "ExecuteBatchError", mentions |-> FALSE],
      [origin |-> "transport", cls |-> "RpcError", mentions |-> TRUE] }
    \cup IF read.taken = 0
         THEN { [origin |-> "driver", cls |-> "FileNotFoundError", mentions |-> read.marked] }
         ELSE { }

\* the inner `except Exception` of the direct branch: is_exec_batch or
\* "ExecuteBatchError" in err_str, or "Stream removed" in err_str
Swallowed(e) == e.cls = "ExecuteBatchError" \/ e.mentions

\* the loop raises. The direct branch swallows what it takes for a
\* disconnect and re-raises the rest; `except Exception` of the handler
\* returns when context.done(), and aborts with the translated status otherwise
RdStreamRaises ==
    /\ rd.pc = "loop"
    /\ \E e \in StreamErrors(rd) :
         rd' = [rd EXCEPT !.pc = "done",
                          !.raised = e,
                          !.ended = IF rd.branch = "direct" /\ Swallowed(e)
                                       THEN "return"
                                    ELSE IF ctxDone THEN "return"
                                    ELSE translate_exception(e.cls)]
    /\ UNCHANGED ctxDone

\* gRPC cancels the handler's task once the client is gone: CancelledError is
\* thrown in at the await the handler is suspended on, and no `except
\* Exception` catches it; thrown into set_file_data, the key has been written
\* or not
RdTaskCancelled ==
    /\ rd.pc # "done"
    /\ ctxDone
    /\ \E sent \in BOOLEAN :
         rd' = [rd EXCEPT !.pc = "done", !.ended = "CancelledError",
                          !.cached = IF rd.pc = "set" /\ sent THEN { rd.buffered } ELSE @]
    /\ UNCHANGED ctxDone

RdNext ==
    \/ ClientGone /\ UNCHANGED notRdVars
    \/ RdFillChunk /\ UNCHANGED notRdVars
    \/ RdFillEnd /\ UNCHANGED notRdVars
    \/ RdSetFileData /\ UNCHANGED notRdVars
    \/ RdFinalYield /\ UNCHANGED notRdVars
    \/ RdDirectChunk /\ UNCHANGED notRdVars
    \/ RdDirectEnd /\ UNCHANGED notRdVars
    \/ RdStreamRaises /\ UNCHANGED notRdVars
    \/ RdTaskCancelled /\ UNCHANGED notRdVars

-----------------------------------------------------------------------------
(* Claims about the handlers and the cache *)

\* the slots holding a Write whose header was accepted
AcceptedWrites ==
    { r \in Slots : /\ reqs[r].kind = "Write"
                    /\ reqs[r].first = "header"
                    /\ reqs[r].pc \notin { "idle", "called" }
                    /\ reqs[r].status # "UNAUTHENTICATED" }

MutatedPaths(req) ==
    CASE req.kind = "Rename" -> { req.path, req.path2 }
      [] req.kind = "Remove" -> { req.path }
      [] OTHER -> { req.rel_path }

\* C2: a Rename, Remove or Write that passed the auth gate has called the
\* cache invalidation for every path it names by the time it responds,
\* whether the driver call returned or raised.
C2_MutationsInvalidateBeforeResponding ==
    \A r \in Slots :
        ( /\ reqs[r].pc = "done"
          /\ reqs[r].kind \in MutatingKinds
          /\ reqs[r].status # "UNAUTHENTICATED" )
        => MutatedPaths(reqs[r]) \subseteq reqs[r].inval

\* C8: with a secret configured, an RPC other than Health whose metadata
\* carries no "Bearer <secret>" ends Unauthenticated without a driver call, a
\* cache call, a consumed Write frame or an acknowledgement; Health is never
\* refused, and with no secret configured nothing is.
C8_AuthGate ==
    \A r \in Slots :
        /\ ( /\ secret # ""
             /\ reqs[r].kind # "Health"
             /\ ~reqs[r].bearer
             /\ reqs[r].pc \notin { "idle", "called" } )
           => /\ reqs[r].pc = "done"
              /\ reqs[r].status = "UNAUTHENTICATED"
              /\ ~reqs[r].calledDriver
              /\ ~reqs[r].calledCache
              /\ reqs[r].consumed = 0
              /\ reqs[r].acks = <<>>
        /\ (secret = "" \/ reqs[r].kind = "Health") => reqs[r].status # "UNAUTHENTICATED"

\* a Write with frames to send was refused for want of the credential
C8_Witness ==
    /\ secret # ""
    /\ reqs[1].kind = "Write" /\ reqs[1].first = "header" /\ reqs[1].frames > 0
    /\ ~reqs[1].bearer
    /\ reqs[1].pc = "done" /\ reqs[1].status = "UNAUTHENTICATED"

\* C9: a Write whose stream is empty or starts with a frame that is not a
\* header is aborted InvalidArgument and that is all it does: write_stream is
\* not called, no further frame is consumed, the cache is not called and no
\* WriteAck is produced.
C9_BadFirstFrameOnlyAborts ==
    \A r \in Slots :
        ( /\ reqs[r].kind = "Write"
          /\ reqs[r].first # "header"
          /\ reqs[r].pc = "done"
          /\ reqs[r].status # "UNAUTHENTICATED" )
        => /\ reqs[r].status = "INVALID_ARGUMENT"
           /\ ~reqs[r].wsCalled
           /\ reqs[r].consumed = (IF reqs[r].first = "data" THEN 1 ELSE 0)
           /\ ~reqs[r].calledCache
           /\ reqs[r].acks = <<>>

C16_CacheFailureNeverFailsTheRequest ==
    \A r \in Slots :
        /\ reqs[r].exc # "RedisError"
        /\ ~reqs[r].cacheFault
        /\ ( /\ reqs[r].pc = "done"
             /\ reqs[r].inval # {} /\ cacheOn /\ ~reqs[r].invOk
             /\ reqs[r].exc = NoExc )
           => reqs[r].status = "OK"

\* C16 witness: with the cache on, a Remove whose invalidate met a Redis
\* failure has ended with status OK
C16_Witness ==
    /\ cacheOn
    /\ reqs[1].pc = "done"
    /\ reqs[1].kind = "Remove"
    /\ reqs[1].inval = { "p" }
    /\ ~reqs[1].invOk
    /\ reqs[1].status = "OK"
    /\ store["p"] = NoObject


\* C18: a Stat or Read of a path that is absent from the store from the
\* moment the RPC begins, every mutation of the store being over by then,
\* ends with NOT_FOUND (the client staying and the backend answering), and
\* writes no stat entry and no data entry.
C18_AbsentPathIsNotFound ==
    \A r \in Slots :
        /\ reqs[r].missing # "cached"
        /\ ( /\ reqs[r].pc = "done"
             /\ reqs[r].kind \in { "Stat", "Read" }
             /\ reqs[r].missing = "yes"
             /\ reqs[r].status \notin { "", "UNAUTHENTICATED" }
             /\ reqs[r].exc # BackendError )
           => reqs[r].status = "NOT_FOUND"

\* C19: with Redis answering every call, once a Read of a cacheable object
\* from offset 0, begun after the Write that made the object was acknowledged,
\* has completed on a cache miss, a further Read from offset 0 that finds the
\* object's body in the data cache, whatever its size, is answered from the
\* cache and makes no driver call.
C19_CachedBodyIsServedFromCache ==
    \A r \in Slots : \A first \in Slots \ { r } :
        ( /\ reqs[first].pc = "done" /\ reqs[first].kind = "Read"
          /\ reqs[first].offset = 0 /\ reqs[first].status = "OK"
          /\ reqs[first].src = "driver" /\ reqs[first].sawAcked # {}
          /\ reqs[r].pc = "done" /\ reqs[r].kind = "Read" /\ reqs[r].offset = 0
          /\ reqs[r].status = "OK"
          /\ reqs[r].dataFound )
        => /\ reqs[r].src = "cache"
           /\ ~reqs[r].calledDriver

\* C21: a GeneratePresignedUrl that passed the auth gate never calls an
\* operation its driver lacks and never ends with INTERNAL: a driver without
\* the capability is answered with supported = false.
C21_UrlCapabilityIsFeatureTested ==
    \A r \in Slots :
        ( /\ reqs[r].pc = "done"
          /\ reqs[r].kind = "GeneratePresignedUrl"
          /\ reqs[r].status # "UNAUTHENTICATED" )
        => /\ reqs[r].exc # "AttributeError"
           /\ reqs[r].status = "OK"

\* C23: with Redis answering every call, once a Write on a path and the Stat
\* or Read of that path that was in flight when the Write began have both
\* ended, each of the path's two cache entries is absent or holds what the
\* store holds at the path.
C23_OverlappedReaderLeavesNoStaleEntry ==
    \A w \in Slots : \A r \in Slots \ { w } :
        ( /\ reqs[w].pc = "done" /\ reqs[w].kind = "Write" /\ reqs[w].wsCalled
          /\ reqs[r].pc = "done" /\ reqs[r].overtaken
          /\ reqs[r].path = reqs[w].rel_path )
        => /\ cacheStat[reqs[r].path].present
                => cacheStat[reqs[r].path].val = store[reqs[r].path]
           /\ cacheData[reqs[r].path].present
                => cacheData[reqs[r].path].val = store[reqs[r].path]

\* C26: no data-cache entry is ever longer than CACHE_MAX_FILE_SIZE, whatever
\* stat made a Read choose to cache the body: a body over the ceiling that a
\* Read gave to set_file_data is not the entry of its path.
C26_DataEntriesWithinCeiling ==
    /\ \A p \in HPaths :
          cacheData[p].present => ~OverCacheLimit(cacheData[p].val)
    /\ \A r \in Slots :
          ( reqs[r].pc = "rd_data_set" /\ OverCacheLimit(reqs[r].full_data) )
          => /\ ~OverCacheLimit(reqs[r].stat_obj)
             /\ cacheData[reqs[r].path].val # reqs[r].full_data

\* C26 witness: a Read that took the cache-fill branch on a stat within the
\* ceiling read a body over the ceiling because a Write had grown the object
\* meanwhile; set_file_data refused it, the Read ended with the body sent and
\* the data cache holds nothing for the path
C26_Witness ==
    \E r \in Slots :
        /\ reqs[r].kind = "Read"
        /\ reqs[r].pc = "done"
        /\ reqs[r].status = "OK"
        /\ reqs[r].src = "driver"
        /\ reqs[r].refused
        /\ store[reqs[r].path] = "large"
        /\ ~cacheData[reqs[r].path].present

-----------------------------------------------------------------------------
(* Claims about write_stream and read_stream of the two drivers *)

\* outcomes of a driver call that come from a failing backend call, a failing
\* inbound sequence or the cancellation of the task
BackendFaults ==
    { "ClientError", "AbortClientError", "OSError", "InboundError", "CancelledError" }

\* the chunk size of the driver a call went to
ChunkSizeOf(driver) == IF driver = "fs" THEN FS_CHUNK_SIZE ELSE S3_CHUNK_SIZE

\* the data sizes of the round trip: nothing, one byte, one chunk, one chunk
\* and a byte
RoundTripSizes(driver) == { 0, 1, ChunkSizeOf(driver), ChunkSizeOf(driver) + 1 }

\* C11: on either driver, write_stream(p, data, overwrite=true) of data of
\* size 0, 1, the chunk size or the chunk size plus one returns normally
\* unless the backend, the inbound sequence or a cancellation made it fail,
\* and a read_stream(p, 0, 0) that follows yields chunks whose concatenation
\* is data.
C11_RoundTrip ==
    /\ ( /\ wsPc = "done"
         /\ wsArgs.overwrite /\ ~wsArgs.append
         /\ wsIn.bytes \in RoundTripSizes(wsArgs.driver)
         /\ wsOutcome \notin BackendFaults )
       => wsOutcome = "returned"
    /\ ( /\ rsOut.driver = wsArgs.driver
         /\ rsOut.offset = 0 /\ rsOut.length = 0
         /\ rsOut.exc \notin BackendFaults
         /\ wsArgs.overwrite /\ ~wsArgs.append
         /\ wsIn.bytes \in RoundTripSizes(wsArgs.driver)
         /\ wsOutcome = "returned" )
       => /\ rsOut.exc = "none"
          /\ ConcatAll(rsOut.chunks) = BytesFrom(0, wsIn.bytes)

\* the content the driver of the last call holds at the path
HeldBy(driver) == IF driver = "fs" THEN fsFile ELSE s3Object

\* C12: on either driver, a write_stream(overwrite=false, append=false) made
\* when the path already holds content ends without having consumed any
\* inbound element, leaves the content as it was and (on S3) opens no
\* multipart session; it never returns normally, and unless the existence
\* check itself failed or was cancelled it raises FileExistsError, which is
\* reported as ALREADY_EXISTS.
C12_ExistingPathRefused ==
    ( /\ wsPc = "done"
      /\ ~wsArgs.overwrite /\ ~wsArgs.append
      /\ wsArgs.found # Absent )
    => /\ wsOutcome # "returned"
       /\ wsOutcome \notin BackendFaults =>
             /\ wsOutcome = "FileExistsError"
             /\ translate_exception(wsOutcome) = "ALREADY_EXISTS"
       /\ wsIn = NoIn
       /\ HeldBy(wsArgs.driver) = wsArgs.found
       /\ wsUploadId = 0
       /\ Len(s3Uploads) < wsCalls

\* C12 witness: S3Driver.write_stream without overwrite on an existing object
\* has ended with FileExistsError
C12_Witness ==
    /\ wsPc = "done"
    /\ wsArgs.driver = "s3"
    /\ ~wsArgs.overwrite /\ ~wsArgs.append
    /\ wsArgs.found # Absent
    /\ wsOutcome = "FileExistsError"

\* C20: an S3Driver.write_stream whose inbound chunks total more than nothing
\* and less than the part threshold, and which no backend failure or
\* cancellation ended, returns normally having opened one session, uploaded
\* exactly one part - number 1, holding all the bytes -, completed the session
\* once and aborted it never.
C20_SmallUploadIsOnePart ==
    ( /\ wsPc = "done"
      /\ wsArgs.driver = "s3" /\ ~wsArgs.append
      /\ wsIn.bytes > 0 /\ wsIn.bytes < S3_CHUNK_SIZE
      /\ wsOutcome \notin BackendFaults \cup { "FileExistsError" } )
    => /\ wsOutcome = "returned"
       /\ wsUploadId # 0
       /\ Len(s3Uploads) <= wsCalls
       /\ WsSession.stored = << [PartNumber |-> 1, Body |-> BytesFrom(0, wsIn.bytes)] >>
       /\ wsParts = << [PartNumber |-> 1, ETag |-> BytesFrom(0, wsIn.bytes)] >>
       /\ WsSession.completeCalls = 1
       /\ WsSession.abortCalls = 0
       /\ WsSession.state = "completed"
       /\ s3Object = Stored(BytesFrom(0, wsIn.bytes))

\* C20 witness: two bytes arrived as two inbound elements and the call returned
C20_Witness ==
    /\ wsPc = "done"
    /\ wsArgs.driver = "s3"
    /\ wsIn.chunks = 2 /\ wsIn.bytes = 2
    /\ wsBuffer = BytesFrom(0, 2)
    /\ wsOutcome = "returned"

\* C22: S3Driver.write_stream with append = true, whatever overwrite is, ends
\* with the unsupported-operation error having consumed no inbound element,
\* opened no multipart session and left the object as it was, and the error
\* taxonomy reports that error as UNIMPLEMENTED, not INTERNAL.
C22_AppendIsUnsupportedOnS3 ==
    ( /\ wsPc = "done"
      /\ wsArgs.driver = "s3" /\ wsArgs.append )
    => /\ wsOutcome = "NotImplementedError"
       /\ wsIn = NoIn
       /\ wsUploadId = 0
       /\ Len(s3Uploads) < wsCalls
       /\ s3Object = wsArgs.found
       /\ translate_exception(wsOutcome) = "UNIMPLEMENTED"

\* C24: when S3Driver.write_stream returns, the parts it listed for
\* complete_multipart_upload are numbered 1..n in upload order, each carries
\* the tag upload_part gave for it, every part but the last is at least
\* S3_CHUNK_SIZE long, the last part is not empty, and the parts in number
\* order make up the inbound bytes, which is what the key then holds.
C24_PartsAreTheInboundBytes ==
    ( /\ wsPc = "done"
      /\ wsArgs.driver = "s3"
      /\ wsOutcome = "returned" )
    => /\ Len(wsParts) >= 1
       /\ Len(WsSession.stored) = Len(wsParts)
       /\ \A i \in 1 .. Len(wsParts) :
             /\ wsParts[i].PartNumber = i
             /\ WsSession.stored[i].PartNumber = i
             /\ wsParts[i].ETag = WsSession.stored[i].Body
             /\ i < Len(wsParts) => Len(WsSession.stored[i].Body) >= S3_CHUNK_SIZE
             /\ Len(WsSession.stored[i].Body) >= 1
       /\ ConcatAll([i \in 1 .. Len(wsParts) |-> WsSession.stored[i].Body])
             = BytesFrom(0, wsIn.bytes)
       /\ s3Object = Stored(BytesFrom(0, wsIn.bytes))
       /\ WsSession.completeCalls = 1

\* C24 witness: an upload of two parts has returned, the first part cut at the
\* threshold and the second the leftover
C24_Witness ==
    /\ wsPc = "done"
    /\ wsArgs.driver = "s3"
    /\ wsOutcome = "returned"
    /\ Len(wsParts) = 2
    /\ wsIn.chunks = 3
    /\ Len(WsSession.stored[2].Body) < S3_CHUNK_SIZE

\* D[offset:] when length = 0 and D[offset:offset+length] otherwise
Slice(D, offset, length) ==
    SubSeq(D, offset + 1, IF length = 0 THEN Len(D) ELSE Min(offset + length, Len(D)))

\* the bytes the other driver yields for the same content, offset and length
OtherDriverBytes(driver, D, offset, length) ==
    IF driver = "fs"
    THEN ConcatAll(IterChunks(GetObject(Stored(D), offset, length).body, S3_CHUNK_SIZE))
    ELSE ConcatAll(FsReadLoop(D, offset, length, 0))

\* C25: a read_stream(p, offset, length) of a stored object of content D that
\* no backend failure ended raises nothing and yields chunks whose
\* concatenation is D[offset:] when length = 0 and D[offset:offset+length]
\* when length > 0 (nothing when offset is at or past the end); on the
\* filesystem driver every chunk is non-empty and at most FS_CHUNK_SIZE long;
\* the other driver yields the same bytes for the same D, offset and length.
C25_ReadStreamIsTheSlice ==
    ( /\ rsOut.driver # "none"
      /\ HeldBy(rsOut.driver).present
      /\ rsOut.exc \notin BackendFaults )
    => LET D == HeldBy(rsOut.driver).body
       IN  /\ rsOut.exc = "none"
           /\ ConcatAll(rsOut.chunks) = Slice(D, rsOut.offset, rsOut.length)
           /\ rsOut.offset >= Len(D) => rsOut.chunks = <<>>
           /\ rsOut.driver = "fs"
                 => \A i \in 1 .. Len(rsOut.chunks) :
                        /\ Len(rsOut.chunks[i]) >= 1
                        /\ Len(rsOut.chunks[i]) <= FS_CHUNK_SIZE
           /\ OtherDriverBytes(rsOut.driver, D, rsOut.offset, rsOut.length)
                 = ConcatAll(rsOut.chunks)

\* C25 witness: a read with a positive offset and a length that spans more
\* than one chunk and stops short of the end of the object
C25_Witness ==
    /\ rsOut.driver = "fs"
    /\ fsFile.present
    /\ rsOut.exc = "none"
    /\ rsOut.offset = 1
    /\ rsOut.length = 3
    /\ Len(fsFile.body) = 5
    /\ Len(rsOut.chunks) = 2

\* C25 second case: a read on the object store that starts at the end of the
\* object yields nothing
C25_WitnessPastEnd ==
    /\ rsOut.driver = "s3"
    /\ s3Object.present
    /\ rsOut.exc = "none"
    /\ rsOut.offset = Len(s3Object.body)
    /\ rsOut.offset > 0
    /\ rsOut.chunks = <<>>

-----------------------------------------------------------------------------
(* Claims about mkdirs, rename and remove of the two drivers *)

\* the last call, the one before it, and what the driver holds now
NsLast == nsLog[Len(nsLog)]
NsPrev == nsLog[Len(nsLog) - 1]
NsStore == IF nsKind = "fs" THEN fsTree ELSE s3Bucket

\* something is stored at p: a file or object, or a directory or prefix
ExistsAt(held, p) == held[p] # "none" \/ Populated(held, p)

\* C13: on either driver a rename(src, dst, overwrite=false) of a stored src,
\* made when dst exists - as a file or object, or as a directory or prefix -
\* raises FileExistsError (ALREADY_EXISTS) and leaves everything as it was.
C13_RenameOntoExistingRefused ==
    ( /\ Len(nsLog) >= 1
      /\ NsLast.op = "rename" /\ ~NsLast.flag
      /\ NsLast.before[NsLast.a] # "none"
      /\ ExistsAt(NsLast.before, NsLast.b) )
    => /\ NsLast.exc = "FileExistsError"
       /\ translate_exception(NsLast.exc) = "ALREADY_EXISTS"
       /\ NsStore = NsLast.before

\* mkdirs(p, exist_ok) was called twice in a row and the first call returned
MkdirsTwice(exist_ok) ==
    /\ Len(nsLog) = 2
    /\ NsPrev.op = "mkdirs" /\ NsLast.op = "mkdirs"
    /\ NsPrev.a = NsLast.a
    /\ NsPrev.flag = exist_ok /\ NsLast.flag = exist_ok
    /\ NsPrev.exc = "none"

\* C14: on either driver, the second of two mkdirs(p, exist_ok=true) in a row
\* returns and changes nothing, and the second of two mkdirs(p, exist_ok=false)
\* in a row raises FileExistsError (ALREADY_EXISTS).
C14_MkdirsTwice ==
    /\ MkdirsTwice(TRUE) => NsLast.exc = "none" /\ NsStore = NsLast.before
    /\ MkdirsTwice(FALSE) =>
          /\ NsLast.exc = "FileExistsError"
          /\ translate_exception(NsLast.exc) = "ALREADY_EXISTS"

\* what lies below d, the marker key of d itself apart
ChildrenOf(held, d) ==
    { n \in DOMAIN held : Under(n, d) /\ n # d \o <<"">> /\ held[n] # "none" }

\* d is a directory (a prefix with no object at d itself) with a child
DirWithChild(held, d) == held[d] \in { "none", "dir" } /\ ChildrenOf(held, d) # {}

\* d is a directory without children: on the bucket, only its marker key
DirWithoutChild(held, d) ==
    /\ ChildrenOf(held, d) = {}
    /\ IF nsKind = "fs" THEN held[d] = "dir"
       ELSE held[d] = "none" /\ held[d \o <<"">>] = "marker"

\* C15: on either driver remove(d, recursive=false) of a directory with a
\* child raises OSError 39 (FAILED_PRECONDITION) and deletes nothing;
\* remove(d, recursive=true) of a directory returns with d and everything
\* below it gone; and remove(d, recursive=false) of a directory without
\* children does not fail as non-empty.
C15_RemoveDirectory ==
    (Len(nsLog) >= 1 /\ NsLast.op = "remove") =>
        /\ (~NsLast.flag /\ DirWithChild(NsLast.before, NsLast.a)) =>
              /\ NsLast.exc = "OSError39"
              /\ translate_exception(NsLast.exc) = "FAILED_PRECONDITION"
              /\ NsStore = NsLast.before
        /\ ( /\ NsLast.flag
             /\ \/ DirWithChild(NsLast.before, NsLast.a)
                \/ DirWithoutChild(NsLast.before, NsLast.a) ) =>
              /\ NsLast.exc = "none"
              /\ ~ExistsAt(NsStore, NsLast.a)
        /\ (~NsLast.flag /\ DirWithoutChild(NsLast.before, NsLast.a)) =>
              NsLast.exc # "OSError39"

-----------------------------------------------------------------------------
(* Claims about the streaming loops of Read *)

\* C17: in Read no chunk is buffered or yielded by a loop iteration that
\* began with the client gone; once a check has found the client gone the
\* handler is over, having buffered and yielded nothing more and without
\* having called set_file_data; and what set_file_data is given is the
\* whole stream, never a proper prefix of it.
C17_CancelledReadCachesNothing ==
    /\ rd.late = 0
    /\ rd.sawDone =>
          /\ rd.pc = "done"
          /\ rd.ended = "return"
          /\ rd.cached = {}
          /\ rd.buffered + rd.yielded = rd.taken - 1
    /\ \A body \in rd.cached : body = rd.stream

\* C17 witness: the cache fill found the client gone after it had buffered a
\* chunk and before the stream was exhausted
C17_Witness ==
    /\ rd.branch = "fill"
    /\ rd.sawDone
    /\ rd.buffered >= 1
    /\ rd.taken < rd.stream
    /\ rd.pc = "done"
    /\ rd.cached = {}

-----------------------------------------------------------------------------
(* Claims about single driver calls followed backend call by backend call *)

\* C27: S3Driver.rename calls delete_object only after its copy_object has
\* succeeded; while it stands between the two, and when it ends by raising
\* or by a crash after the copy, what it copied is at src, at dst or at both;
\* when it returns, src holds nothing and dst holds what it copied; a failed
\* delete_object makes it raise.
C27_RenameNeverLosesTheObject ==
    \A t \in RnTasks :
        LET task == rn.tasks[t]
        IN  /\ task.deletes > 0 => task.copied # "none"
            /\ task.pc = "delete" =>
                  task.copied \in { rn.bucket[task.src], rn.bucket[task.dst] }
            /\ ( task.ended \in { "raised", "crashed" } /\ task.copied # "none" ) =>
                  /\ task.copied \in { task.atEnd.src, task.atEnd.dst }
                  /\ task.deletes > 0 => task.exc = "ClientError"
            /\ task.ended = "returned" =>
                  /\ task.atEnd.src = "none"
                  /\ task.atEnd.dst = task.copied
                  /\ task.copied # "none"

\* C28: after a Remove or Rename of a directory has succeeded, no Stat, Exists
\* or Read of a path below that directory is answered from a cache entry that
\* was set before it; in particular Exists never reports from the stat cache
\* a path that the driver no longer has.
C28_DirectoryMutationSweepsDescendants ==
    dc.last.src = "cache" =>
        /\ ~dc.last.old
        /\ ( dc.last.kind = "Exists" /\ dc.last.found ) =>
              KindAt(dc.tree, dc.last.path) # "none"

\* C29: FSDriver.listdir(d) with children of d removed while it runs ends
\* without an exception, and its results are the stats of exactly the
\* enumerated children that still existed when they were statted: one for
\* each, in enumeration order, each of the child it was made for.
C29_ListdirSkipsVanishedChildren ==
    ld.pc = "done" =>
        /\ ld.exc = "none"
        /\ Len(ld.results) = Len(ld.names)
        /\ \A i \in 1 .. Len(ld.results) :
              /\ i <= Len(ld.names)
              /\ ld.results[i].of = ld.names[i]
              /\ ld.results[i].rel_path = os_path_join(LdDir, ld.names[i])
        /\ \A i, j \in 1 .. Len(ld.results) :
              i # j => ld.results[i].of # ld.results[j].of

\* C30: in S3Driver.read_stream a response body that get_object returned is
\* never closed twice, is open while chunks are taken from it, and has been
\* closed exactly once when the generator has finished, however it finished:
\* by exhaustion, by an exception raised while iterating, by cancellation or
\* by being closed after its consumer abandoned it.
C30_BodyClosedOnEveryExit ==
    /\ rb.closes <= 1
    /\ rb.pc \in { "iter", "yielded" } => rb.body = "open" /\ rb.closes = 0
    /\ ( rb.pc = "finished" /\ rb.body # "none" ) =>
          /\ rb.body = "closed"
          /\ rb.closes = 1

\* C30 witness: the consumer left after the first of several chunks, the
\* generator was closed at its yield, and the body is closed
C30_Witness ==
    /\ rb.pc = "finished"
    /\ rb.how = "GeneratorExit"
    /\ rb.consumer = "abandoned"
    /\ rb.yielded = 1
    /\ rb.chunks > 1
    /\ rb.body = "closed"
    /\ rb.closes = 1

\* C31: in the direct branch of Read an exception that the driver's stream
\* raised ends the handler with an abort carrying the status the taxonomy
\* gives for it, and an exception of the transport ends it with a plain
\* return, whatever was yielded before and whether or not the client is gone.
C31_StreamErrorsAreToldApart ==
    ( rd.branch = "direct" /\ rd.pc = "done" /\ rd.raised.origin # "none" ) =>
        /\ rd.raised.origin = "driver" => rd.ended = translate_exception(rd.raised.cls)
        /\ rd.raised.origin = "transport" => rd.ended = "return"

\* the same while the client is there and the message names no marker text
C31_ToldApartWhileClientIsThere ==
    ( /\ rd.branch = "direct" /\ rd.pc = "done" /\ rd.raised.origin # "none"
      /\ ~ctxDone /\ ~(rd.raised.origin = "driver" /\ rd.raised.mentions) ) =>
        /\ rd.raised.origin = "driver" => rd.ended = translate_exception(rd.raised.cls)
        /\ rd.raised.origin = "transport" => rd.ended = "return"

\* a missing file whose path contains the marker text ends as a plain return
C31_MarkedPathCase ==
    ~( /\ rd.branch = "direct" /\ rd.pc = "done" /\ ~ctxDone
       /\ rd.raised.cls = "FileNotFoundError" /\ rd.ended = "return" )

-----------------------------------------------------------------------------
(* Two Write RPCs followed frame by frame *)

WrTasks == { 1, 2 }

\* WriteEnvelope: kind is what WhichOneof("kind") gives; a header carries the
\* path and the flags, a data frame carries bytes
HeaderFrame(rel_path, overwrite) ==
    [kind |-> "header", data |-> <<>>, path |-> rel_path, overwrite |-> overwrite]

DataFrame(data) == [kind |-> "data", data |-> data, path |-> "", overwrite |-> FALSE]

\* the first frame each client sends: the first client forbids overwriting
FirstHeader(t) == HeaderFrame("p", t = 2)

\* what a client may send after its first frame: data of one or two bytes, or
\* a header that names another path and the opposite flag
Envelopes(t) ==
    { DataFrame(<<1>>), DataFrame(<<2, 3>>), HeaderFrame("q", t = 1) }

NoAck == [ok |-> FALSE, error |-> "none", bytes_written |-> 0]

\* one Write RPC: state.bytes_count, the arguments write_stream was called
\* with, the frames received after the first, the chunks _data_extractor
\* yielded; overlap records that a frame was received while the other RPC was
\* inside write_stream
WrIdleTask(t) ==
    [pc |-> "first", bytes_count |-> 0, rel_path |-> "unknown",
     called |-> [rel_path |-> "", overwrite |-> FALSE],
     sent |-> <<>>, handed |-> <<>>, overlap |-> FALSE, ack |-> NoAck]

WrInit == wr = [pc |-> "run", task |-> [t \in WrTasks |-> WrIdleTask(t)]]

WrSet(t, rec) == wr' = [wr EXCEPT !.task[t] = rec]

\* `data_len = len(envelope.data.data)`
data_len_frames(envelope) == 1
data_len(envelope) == Len(envelope.data)

\* first_msg is the header: write_stream is called with its path and flags
WrFirst(t) ==
    /\ wr.pc = "run"
    /\ wr.task[t].pc = "first"
    /\ LET header == FirstHeader(t)
       IN  WrSet(t, [wr.task[t] EXCEPT !.rel_path = header.path,
                        !.called = [rel_path |-> header.path,
                                    overwrite |-> header.overwrite],
                        !.pc = "driver"])
    /\ UNCHANGED <<ck, ex>>

\* the driver asks for the next chunk and _data_extractor takes one envelope
\* from the iterator: a header is skipped, data is counted and yielded
WrEnvelope(t) ==
    /\ wr.pc = "run"
    /\ wr.task[t].pc = "driver"
    /\ Len(wr.task[t].sent) < MaxFrames
    /\ \E envelope \in Envelopes(t) :
         LET me == [wr.task[t] EXCEPT
                       !.sent = Append(@, envelope),
                       !.overlap = @ \/ \E u \in WrTasks \ {t} :
                                           wr.task[u].pc = "driver"]
         IN  IF envelope.kind = "header"
             THEN WrSet(t, me)
             ELSE WrSet(t, [me EXCEPT !.bytes_count = @ + data_len(envelope),
                                      !.handed = Append(@, envelope.data)])
    /\ UNCHANGED <<ck, ex>>

\* the request stream ends, the driver stores what it was given and returns
WrReturns(t) ==
    /\ wr.pc = "run"
    /\ wr.task[t].pc = "driver"
    /\ WrSet(t, [wr.task[t] EXCEPT !.pc = "ok"])
    /\ UNCHANGED <<ck, ex>>

\* write_stream or the request iterator raises: before the first chunk, in
\* the middle of the stream or at its end
WrRaises(t) ==
    /\ wr.pc = "run"
    /\ wr.task[t].pc = "driver"
    /\ WrSet(t, [wr.task[t] EXCEPT !.pc = "failed"])
    /\ UNCHANGED <<ck, ex>>

\* the acknowledgement carries state.bytes_count on either way out
WrAck(t) ==
    /\ wr.pc = "run"
    /\ wr.task[t].pc \in { "ok", "failed" }
    /\ WrSet(t, [wr.task[t] EXCEPT
                    !.ack = IF wr.task[t].pc = "ok"
                            THEN WriteAckOk(wr.task[t].bytes_count)
                            ELSE WriteAckFailed(BackendError, wr.task[t].bytes_count),
                    !.pc = "done"])
    /\ UNCHANGED <<ck, ex>>

WrNext ==
    \/ \E t \in WrTasks : WrFirst(t) /\ UNCHANGED notCallVars
    \/ \E t \in WrTasks : WrEnvelope(t) /\ UNCHANGED notCallVars
    \/ \E t \in WrTasks : WrReturns(t) /\ UNCHANGED notCallVars
    \/ \E t \in WrTasks : WrRaises(t) /\ UNCHANGED notCallVars
    \/ \E t \in WrTasks : WrAck(t) /\ UNCHANGED notCallVars

\* the payloads of the data frames of a stream, in order
RECURSIVE DataPayloads(_)
DataPayloads(frames) ==
    IF frames = <<>> THEN <<>>
    ELSE IF Head(frames).kind = "data"
         THEN <<Head(frames).data>> \o DataPayloads(Tail(frames))
         ELSE DataPayloads(Tail(frames))

\* C32: a Write the driver accepted acknowledges the summed length of the
\* data frames sent after the first header, the driver was handed those
\* payloads in order, a later header changed neither the path nor the flag
\* the driver was called with, and this holds for each of two Write RPCs
\* whose frames interleave
C32_AckCountsTheDataFrames ==
    wr.pc = "run" =>
      \A t \in WrTasks :
        LET me == wr.task[t]
        IN  (me.pc = "done" /\ me.ack.ok) =>
              /\ me.ack.bytes_written = Len(ConcatAll(DataPayloads(me.sent)))
              /\ me.handed = DataPayloads(me.sent)
              /\ me.called = [rel_path |-> FirstHeader(t).path,
                              overwrite |-> FirstHeader(t).overwrite]

\* both RPCs were acknowledged with different counts after their frames
\* interleaved, and the first one's stream held a second header
C32_Witness ==
    /\ wr.pc = "run"
    /\ \A t \in WrTasks : wr.task[t].pc = "done" /\ wr.task[t].ack.ok
                          /\ wr.task[t].overlap
    /\ wr.task[1].sent = <<HeaderFrame("q", TRUE), DataFrame(<<2, 3>>)>>
    /\ wr.task[1].ack.bytes_written = 2
    /\ wr.task[2].ack.bytes_written = 1

-----------------------------------------------------------------------------
(* One file, the spellings of its path and the cache keys under them *)

\* RPCs of one behaviour
MaxKeyCalls == 3

\* three rel_paths a client may send for the file a/b, and another path
Spellings ==
    { <<"a", "/", "b">>, <<"/", "a", "/", "b">>, <<"a", "\\", "b">> }

OtherPath == Str1("c")

\* the file FSDriver works on for a rel_path: _full_path goes through
\* safe_join and normalize_path
FsFileOf(rel_path) == PathParts(normalize_path(rel_path))

\* CacheManager._key_stat / _key_data: the key is made of the rel_path as given
_key_verbatim(rel_path) == rel_path
_key_canonical(rel_path) == PathStr(FsFileOf(rel_path))
_key(rel_path) == _key_verbatim(rel_path)

CacheKeys == { _key_verbatim(r) : r \in Spellings \cup { OtherPath } }
             \cup { _key_canonical(r) : r \in Spellings \cup { OtherPath } }

\* no value under a key, and a value: the version of the file it was made
\* from and the number of changes of the file that had completed by then
NoKeyEntry == [ver |-> 0, epoch |-> 0, set |-> FALSE]
KeyEntry(ver, epoch) == [ver |-> ver, epoch |-> epoch, set |-> TRUE]

NoKeyAnswer == [op |-> "none", path |-> <<>>, hit |-> FALSE, found |-> FALSE,
                ver |-> 0, epoch |-> 0]

\* file is the version stored at a/b (0: no file; every version is a body of
\* CACHE_MAX_FILE_SIZE bytes); muts lists the rel_paths of the completed
\* Write, Remove and Rename calls; last is the answer of the latest RPC
CkInit ==
    \E ver \in 0 .. 1 :
      ck = [pc |-> "run", calls |-> 0, file |-> ver, muts |-> <<>>,
            stat |-> [k \in CacheKeys |-> NoKeyEntry],
            data |-> [k \in CacheKeys |-> NoKeyEntry],
            last |-> NoKeyAnswer]

CkCall == ck.pc = "run" /\ ck.calls < MaxKeyCalls

\* what the driver finds for a rel_path
CkFileAt(rel_path) == IF FsFileOf(rel_path) = FsFileOf(<<"a", "/", "b">>) THEN ck.file ELSE 0

KeyAnswer(op, rel_path, hit, ver, epoch) ==
    [op |-> op, path |-> rel_path, hit |-> hit, found |-> ver > 0,
     ver |-> ver, epoch |-> epoch]

\* Stat: get_stat, else driver.stat and set_stat
CkStat(rel_path) ==
    /\ CkCall
    /\ LET k == _key(rel_path)
           ver == CkFileAt(rel_path)
           now == Len(ck.muts)
       IN  IF ck.stat[k].set
           THEN ck' = [ck EXCEPT !.calls = @ + 1,
                          !.last = KeyAnswer("Stat", rel_path, TRUE,
                                             ck.stat[k].ver, ck.stat[k].epoch)]
           ELSE IF ver = 0
           THEN ck' = [ck EXCEPT !.calls = @ + 1,
                          !.last = KeyAnswer("Stat", rel_path, FALSE, 0, now)]
           ELSE ck' = [ck EXCEPT !.calls = @ + 1,
                          !.stat[k] = KeyEntry(ver, now),
                          !.last = KeyAnswer("Stat", rel_path, FALSE, ver, now)]
    /\ UNCHANGED <<wr, ex>>

\* Read from offset 0: get_file_data, else get_stat or driver.stat and
\* set_stat, then read_stream and set_file_data
CkRead(rel_path) ==
    /\ CkCall
    /\ LET k == _key(rel_path)
           ver == CkFileAt(rel_path)
           now == Len(ck.muts)
       IN  IF ck.data[k].set
           THEN ck' = [ck EXCEPT !.calls = @ + 1,
                          !.last = KeyAnswer("Read", rel_path, TRUE,
                                             ck.data[k].ver, ck.data[k].epoch)]
           ELSE IF ver = 0
           THEN ck' = [ck EXCEPT !.calls = @ + 1,
                          !.last = KeyAnswer("Read", rel_path, FALSE, 0, now)]
           ELSE ck' = [ck EXCEPT !.calls = @ + 1,
                          !.stat[k] = IF @.set THEN @ ELSE KeyEntry(ver, now),
                          !.data[k] = KeyEntry(ver, now),
                          !.last = KeyAnswer("Read", rel_path, FALSE, ver, now)]
    /\ UNCHANGED <<wr, ex>>

\* CacheManager.invalidate(rel_path): DEL of the two keys of that rel_path
CkInvalidate(cache, rel_path) == [cache EXCEPT ![_key(rel_path)] = NoKeyEntry]

\* Write with overwrite: write_stream, then invalidate(rel_path)
CkWrite(rel_path) ==
    /\ CkCall
    /\ ck' = [ck EXCEPT !.calls = @ + 1,
                 !.file = Len(ck.muts) + 2,
                 !.muts = Append(@, rel_path),
                 !.stat = CkInvalidate(@, rel_path),
                 !.data = CkInvalidate(@, rel_path),
                 !.last = KeyAnswer("Write", rel_path, FALSE, 0, Len(ck.muts) + 1)]
    /\ UNCHANGED <<wr, ex>>

\* Remove: driver.remove, then invalidate(rel_path); os.remove of a missing
\* file raises and nothing is invalidated
CkRemove(rel_path) ==
    /\ CkCall
    /\ IF CkFileAt(rel_path) = 0
       THEN ck' = [ck EXCEPT !.calls = @ + 1,
                      !.last = KeyAnswer("Remove", rel_path, FALSE, 0, Len(ck.muts))]
       ELSE ck' = [ck EXCEPT !.calls = @ + 1,
                      !.file = 0,
                      !.muts = Append(@, rel_path),
                      !.stat = CkInvalidate(@, rel_path),
                      !.data = CkInvalidate(@, rel_path),
                      !.last = KeyAnswer("Remove", rel_path, FALSE, 0, Len(ck.muts) + 1)]
    /\ UNCHANGED <<wr, ex>>

\* Rename of the file to another path: driver.rename, then invalidate(src)
\* and invalidate(dst); os.rename of a missing file raises
CkRename(src_path) ==
    /\ CkCall
    /\ IF CkFileAt(src_path) = 0
       THEN ck' = [ck EXCEPT !.calls = @ + 1,
                      !.last = KeyAnswer("Rename", src_path, FALSE, 0, Len(ck.muts))]
       ELSE ck' = [ck EXCEPT !.calls = @ + 1,
                      !.file = 0,
                      !.muts = Append(@, src_path),
                      !.stat = CkInvalidate(CkInvalidate(@, src_path), OtherPath),
                      !.data = CkInvalidate(CkInvalidate(@, src_path), OtherPath),
                      !.last = KeyAnswer("Rename", src_path, FALSE, 0, Len(ck.muts) + 1)]
    /\ UNCHANGED <<wr, ex>>

CkNext ==
    \/ \E r \in Spellings : CkStat(r) /\ UNCHANGED notCallVars
    \/ \E r \in Spellings : CkRead(r) /\ UNCHANGED notCallVars
    \/ \E r \in Spellings : CkWrite(r) /\ UNCHANGED notCallVars
    \/ \E r \in Spellings : CkRemove(r) /\ UNCHANGED notCallVars
    \/ \E r \in Spellings : CkRename(r) /\ UNCHANGED notCallVars

\* C33: a Stat or Read of the file, under any spelling of its path, is not
\* answered from a cache entry made before a Write, Remove or Rename of the
\* file has completed
C33_AnswersFollowTheCanonicalPath ==
    (ck.pc = "run" /\ ck.last.hit) => ck.last.epoch = Len(ck.muts)

\* the same for changes made under the very rel_path the Stat or Read names
C33_AnswersFollowTheSameSpelling ==
    (ck.pc = "run" /\ ck.last.hit) =>
       \A i \in 1 .. Len(ck.muts) : i > ck.last.epoch => ck.muts[i] # ck.last.path

-----------------------------------------------------------------------------
(* Two creations of one path without overwrite *)

ExTasks == { 1, 2 }

\* what a path holds: nothing, or content named after where it came from
ExNothing == "nothing"
ExContents == { "first", "second", "moved", "old" }

\* the content a write_stream call stores
ExBodyOf(t) == IF t = 1 THEN "first" ELSE "second"

\* one call with overwrite=False (and append=False): chunks counts what it
\* took from its data stream, stored records that it returned normally,
\* replaced that it put its content where some content was
ExIdleTask(op) ==
    [op |-> op, pc |-> "check", chunks |-> 0, exc |-> NoExc, stored |-> FALSE,
     replaced |-> FALSE]

\* the driver, the calls and the path p before them: the first client writes
\* p or renames src to p, the second one writes p; overlapped records that a
\* call took a step while the other one was between its first step and its
\* last
ExInit ==
    \E kind \in DriverKinds, op \in { "write_stream", "rename" },
       held \in { ExNothing, "old" } :
      /\ kind = "s3" => op = "write_stream"
      /\ ex = [pc |-> "run", kind |-> kind, dst |-> held, src |-> "moved",
               overlapped |-> FALSE,
               task |-> [t \in ExTasks |->
                           ExIdleTask(IF t = 1 THEN op ELSE "write_stream")]]

ExStep(t, rec) ==
    [ex EXCEPT !.task[t] = rec,
               !.overlapped = @ \/ \E u \in ExTasks \ {t} :
                                     ex.task[u].pc \notin { "check", "done" }]

\* the test each call starts with: os.path.exists(full_path) in
\* FSDriver.write_stream and FSDriver.rename, head_object in
\* S3Driver.write_stream; FileExistsError when the path holds something
ExistsCheckSkipped(held) == FALSE
ExistsCheck(held) == held # ExNothing

ExCheck(t) ==
    /\ ex.pc = "run"
    /\ ex.task[t].pc = "check"
    /\ IF ExistsCheck(ex.dst)
       THEN ex' = ExStep(t, [ex.task[t] EXCEPT !.exc = "FileExistsError", !.pc = "done"])
       ELSE ex' = ExStep(t, [ex.task[t] EXCEPT !.pc = "act"])
    /\ UNCHANGED <<wr, ck>>

\* FSDriver.write_stream: the parent directory is looked up and made
ExFsParent(t) ==
    /\ ex.pc = "run" /\ ex.kind = "fs"
    /\ ex.task[t].op = "write_stream" /\ ex.task[t].pc = "act"
    /\ ex' = ExStep(t, [ex.task[t] EXCEPT !.pc = "open"])
    /\ UNCHANGED <<wr, ck>>

\* aiofiles.open(full_path, 'wb') creates the file or empties the one that is
\* there
ExFsOpen(t) ==
    /\ ex.pc = "run" /\ ex.kind = "fs"
    /\ ex.task[t].op = "write_stream" /\ ex.task[t].pc = "open"
    /\ ex' = [ExStep(t, [ex.task[t] EXCEPT !.replaced = ex.dst # ExNothing,
                                            !.pc = "write"])
                EXCEPT !.dst = ExBodyOf(t)]
    /\ UNCHANGED <<wr, ck>>

\* a chunk is written through the call's own file object
ExFsWrite(t) ==
    /\ ex.pc = "run" /\ ex.kind = "fs"
    /\ ex.task[t].op = "write_stream" /\ ex.task[t].pc = "write"
    /\ ex.task[t].chunks < MaxChunks
    /\ ex' = [ExStep(t, [ex.task[t] EXCEPT !.chunks = @ + 1])
                EXCEPT !.dst = ExBodyOf(t)]
    /\ UNCHANGED <<wr, ck>>

\* the data stream ends and the file is closed
ExFsClose(t) ==
    /\ ex.pc = "run" /\ ex.kind = "fs"
    /\ ex.task[t].op = "write_stream" /\ ex.task[t].pc = "write"
    /\ ex' = ExStep(t, [ex.task[t] EXCEPT !.stored = TRUE, !.pc = "done"])
    /\ UNCHANGED <<wr, ck>>

\* S3Driver.write_stream: create_multipart_upload and the upload_part calls
\* leave the key as it is
ExS3Create(t) ==
    /\ ex.pc = "run" /\ ex.kind = "s3"
    /\ ex.task[t].op = "write_stream" /\ ex.task[t].pc = "act"
    /\ ex' = ExStep(t, [ex.task[t] EXCEPT !.pc = "upload"])
    /\ UNCHANGED <<wr, ck>>

ExS3Upload(t) ==
    /\ ex.pc = "run" /\ ex.kind = "s3"
    /\ ex.task[t].op = "write_stream" /\ ex.task[t].pc = "upload"
    /\ \E n \in 1 .. MaxChunks :
         ex' = ExStep(t, [ex.task[t] EXCEPT !.chunks = n, !.pc = "complete"])
    /\ UNCHANGED <<wr, ck>>

\* complete_multipart_upload puts the object under the key, whatever is there
ExS3Complete(t) ==
    /\ ex.pc = "run" /\ ex.kind = "s3"
    /\ ex.task[t].op = "write_stream" /\ ex.task[t].pc = "complete"
    /\ ex' = [ExStep(t, [ex.task[t] EXCEPT !.replaced = ex.dst # ExNothing,
                                            !.stored = TRUE, !.pc = "done"])
                EXCEPT !.dst = ExBodyOf(t)]
    /\ UNCHANGED <<wr, ck>>

\* FSDriver.rename: os.rename(full_src, full_dst) replaces a file at full_dst
ExFsRename(t) ==
    /\ ex.pc = "run" /\ ex.kind = "fs"
    /\ ex.task[t].op = "rename" /\ ex.task[t].pc = "act"
    /\ ex' = [ExStep(t, [ex.task[t] EXCEPT !.replaced = ex.dst # ExNothing,
                                            !.stored = TRUE, !.pc = "done"])
                EXCEPT !.dst = ex.src, !.src = ExNothing]
    /\ UNCHANGED <<wr, ck>>

ExNext ==
    \/ \E t \in ExTasks : ExCheck(t) /\ UNCHANGED notCallVars
    \/ \E t \in ExTasks : ExFsParent(t) /\ UNCHANGED notCallVars
    \/ \E t \in ExTasks : ExFsOpen(t) /\ UNCHANGED notCallVars
    \/ \E t \in ExTasks : ExFsWrite(t) /\ UNCHANGED notCallVars
    \/ \E t \in ExTasks : ExFsClose(t) /\ UNCHANGED notCallVars
    \/ \E t \in ExTasks : ExS3Create(t) /\ UNCHANGED notCallVars
    \/ \E t \in ExTasks : ExS3Upload(t) /\ UNCHANGED notCallVars
    \/ \E t \in ExTasks : ExS3Complete(t) /\ UNCHANGED notCallVars
    \/ \E t \in ExTasks : ExFsRename(t) /\ UNCHANGED notCallVars

ExAllDone == \A t \in ExTasks : ex.task[t].pc = "done"

\* at most one call stored content, every other one raised FileExistsError,
\* and no call replaced content
ExExclusive ==
    /\ \A t \in ExTasks : ~ex.task[t].replaced
    /\ ExAllDone =>
         /\ Cardinality({ t \in ExTasks : ex.task[t].stored }) <= 1
         /\ \A t \in ExTasks : ~ex.task[t].stored => ex.task[t].exc = "FileExistsError"
         /\ ex.dst # ExNothing

\* C34: of two calls without overwrite that create the same path, in any
\* interleaving of their steps, at most one stores content and the other
\* fails with FileExistsError, and content at the path is never replaced
C34_OverwriteFalseIsExclusive == ex.pc = "run" => ExExclusive

\* the same for two calls of which one ends before the other starts
C34_ExclusiveOneAfterTheOther == (ex.pc = "run" /\ ~ex.overlapped) => ExExclusive

-----------------------------------------------------------------------------
(* Claim about what a failed S3Driver.write_stream leaves at the key *)

\* an S3Driver.write_stream with overwrite set has ended by raising
WsFailedOverwrite ==
    /\ wsPc = "done"
    /\ wsArgs.driver = "s3" /\ wsArgs.overwrite /\ ~wsArgs.append
    /\ wsOutcome \notin { "none", "returned" }

\* C35: when S3Driver.write_stream called with overwrite has raised, at any
\* point, the key holds exactly what it held when the call began
C35_FailedWriteLeavesTheObject == WsFailedOverwrite => s3Object = wsArgs.found

\* the same for the calls that raised without the store having carried out
\* the completion: an inbound failure, a failed upload_part, a refused
\* completion
C35_UntouchedUnlessTheStoreCompleted ==
    (WsFailedOverwrite /\ (wsUploadId # 0 => WsSession.state # "completed"))
       => s3Object = wsArgs.found

\* during and after a call the key holds what it held before or the whole of
\* the inbound bytes, never a part of them
C35_NeverAPartOfTheBody ==
    (wsArgs.driver = "s3" /\ wsPc # "idle") =>
       s3Object \in { wsArgs.found, Stored(BytesFrom(0, wsIn.bytes)) }

\* a call that had uploaded a part raised at the completion and the key is
\* as before
C35_RefusedCompletionCase ==
    /\ WsFailedOverwrite
    /\ wsUploadId # 0 /\ WsSession.completeCalls = 1 /\ WsSession.state = "aborted"
    /\ wsArgs.found = Stored(<<9>>)
    /\ s3Object = wsArgs.found

-----------------------------------------------------------------------------
(* Specifications *)

InitPath == PathInit /\ MpIdle /\ HIdle /\ NsIdle /\ RdIdle /\ StepIdle

SpecPath == InitPath /\ [][PathNext]_vars

InitMp == PathIdle /\ MpInit /\ HIdle /\ NsIdle /\ RdIdle /\ StepIdle

SpecMp == InitMp /\ [][MpNext]_vars

InitRs == PathIdle /\ RsInit /\ HIdle /\ NsIdle /\ RdIdle /\ StepIdle

SpecRs == InitRs /\ [][RsNext]_vars


InitH == PathIdle /\ MpIdle /\ HInit /\ NsIdle /\ RdIdle /\ StepIdle

InitCache == InitH /\ secret = Token

Spec == InitCache /\ [][HNext]_vars

SpecAuth == InitH /\ [][AuthNext]_vars

\* the same service with the cache on and a Redis that answers every call
InitSteady ==
    PathIdle /\ MpIdle /\ HStart(FALSE) /\ secret = Token /\ cacheOn /\ NsIdle /\ RdIdle /\ StepIdle

SpecSteady == InitSteady /\ [][HNext]_vars

InitNs == PathIdle /\ MpIdle /\ HIdle /\ NsInit /\ RdIdle /\ StepIdle

SpecNs == InitNs /\ [][NsNext]_vars

InitRd == PathIdle /\ MpIdle /\ HIdle /\ NsIdle /\ RdInit /\ StepIdle

SpecRead == InitRd /\ [][RdNext]_vars

IdleButRn == PathIdle /\ MpIdle /\ HIdle /\ NsIdle /\ RdIdle

IdleButCalls == IdleButRn /\ StepsUnused

InitRen == IdleButRn /\ RnInit /\ ld = Unused /\ rb = Unused /\ dc = Unused /\ CallIdle

SpecRen == InitRen /\ [][RnNext]_vars

InitDir == IdleButRn /\ DcInit /\ rn = Unused /\ ld = Unused /\ rb = Unused /\ CallIdle

SpecDir == InitDir /\ [][DcNext]_vars

InitLd == IdleButRn /\ LdInit /\ rn = Unused /\ rb = Unused /\ dc = Unused /\ CallIdle

SpecLd == InitLd /\ [][LdNext]_vars

InitBody == IdleButRn /\ RbInit /\ rn = Unused /\ ld = Unused /\ dc = Unused /\ CallIdle

SpecBody == InitBody /\ [][RbNext]_vars

InitWr == IdleButCalls /\ WrInit /\ ck = Unused /\ ex = Unused

SpecWr == InitWr /\ [][WrNext]_vars

InitKey == IdleButCalls /\ CkInit /\ wr = Unused /\ ex = Unused

SpecKey == InitKey /\ [][CkNext]_vars

InitEx == IdleButCalls /\ ExInit /\ wr = Unused /\ ck = Unused

SpecEx == InitEx /\ [][ExNext]_vars

=============================================================================
